---- MODULE Spec2Model ----
(***************************************************************************)
(* Model of the chunking, caching and analysis pipeline of the backend:    *)
(*   utils/cobol_chunker.py        CobolChunker                             *)
(*   utils/analysis_cache.py       AnalysisCache                            *)
(*   services/*_analysis_service.py, api/routes/analysis.py                 *)
(*   utils/optimized_chunker.py, utils/code_chunker.py                      *)
(* The specifications share the variables: SpecChunk (the COBOL chunk      *)
(* builder), SpecCache (the content-addressed cache), SpecPipeline (the     *)
(* background analysis requests), SpecPipelineFair (the same, with every    *)
(* started task step eventually taken), SpecPipelineIO (the same, with      *)
(* failing cache I/O), SpecOptimized (prepare_code_for_analysis),           *)
(* SpecLargeFile (one large file split) and SpecGrouping (the similarity    *)
(* grouping).                                                               *)
(***************************************************************************)
EXTENDS Integers, Sequences, FiniteSets, TLC

(***************************************************************************)
(* Bounds of the model and scaled configuration values.                    *)
(***************************************************************************)
\* AnalysisCache.cache_duration (configurable; 24 hours by default), in ticks
CacheDuration == 2
\* the clock stops here
MaxTime == 3
\* longest input file, in lines
MaxLines == 6
\* CobolChunker.max_tokens (configurable; 120000 by default), scaled down
MaxTokens == 6
\* most chunks a chunker returns for one request
MaxChunks == 2
\* analysis requests accepted in one run
NumRequests == 2

(***************************************************************************)
(* Python helpers.                                                         *)
(***************************************************************************)
Max(a, b) == IF a >= b THEN a ELSE b
Min(a, b) == IF a <= b THEN a ELSE b

\* s[:k - 1]: a prefix one element short
PyPrefix_Short(s, k) == SubSeq(s, 1, Min(k, Len(s)) - 1)

\* s[:k] for 0 <= k (a stop beyond the end is clamped)
PyPrefix(s, k) == SubSeq(s, 1, Min(k, Len(s)))

\* s[k:] for any integer k: a negative start counts from the end and is
\* clamped at the beginning, a start beyond the end gives the empty list
PySliceFrom(s, k) ==
    LET start == IF k < 0 THEN Max(Len(s) + k, 0) ELSE Min(k, Len(s))
    IN  SubSeq(s, start + 1, Len(s))

RECURSIVE SumSeq(_)
SumSeq(s) == IF s = <<>> THEN 0 ELSE Head(s) + SumSeq(Tail(s))

Range(s) == {s[k] : k \in DOMAIN s}

(***************************************************************************)
(* Input lines.  A line is known to the chunker by the pattern tiers it    *)
(* matches and by its token cost.                                          *)
(*   division      "PROCEDURE DIVISION."   division pattern only            *)
(*   section       "FILE SECTION."         section pattern only             *)
(*   section_name  "PROGRAM-ID."           section and paragraph patterns   *)
(*   paragraph     "0100-MAIN-PROCESS."    paragraph pattern only           *)
(*   plain         "MOVE A TO B"           no pattern                       *)
(***************************************************************************)
HeaderClasses == {"division", "section_name", "paragraph"}

\* header lines are short; statement lines are short, medium or as large as
\* the whole budget
LineSet ==
    [cls : HeaderClasses, tok : {1}] \cup [cls : {"plain"}, tok : {1, 3, MaxTokens}]

Files == UNION {[1..n -> LineSet] : n \in 0..MaxLines}

MatchesDivision(l)  == l.cls = "division"
MatchesSection(l)   == l.cls \in {"section", "section_name"}
MatchesParagraph(l) == l.cls \in {"section_name", "paragraph"}

\* len(self.encoding.encode(line))
LineTokens(l) == l.tok

\* len(self.encoding.encode('\n'.join(lines))): the lines' tokens and one
\* token for each newline between them
NewlineTokens == 1
JoinTokens(file, idxs) ==
    IF idxs = <<>> THEN 0
    ELSE SumSeq([k \in 1..Len(idxs) |-> LineTokens(file[idxs[k]])])
         + (Len(idxs) - 1) * NewlineTokens

(***************************************************************************)
(* State.                                                                  *)
(***************************************************************************)
VARIABLES
    \* CobolChunker.chunk_cobol_file and _chunk_by_cobol_structure
    file,                 \* the input lines (file_content.splitlines())
    cpc,                  \* "start", "loop" (before line i) or "done"
    i,                    \* 1-based position of the next line of the for loop
    current_chunk_lines,  \* positions (in file) of the accumulated lines
    current_tokens,
    chunk_number,
    current_section,      \* position of the boundary line that gave the label, 0 = "UNKNOWN"
    chunks,               \* the chunks emitted so far
    strategy,             \* 'strategy' of the returned dict, "none" until it returns
    \* AnalysisCache (one cache directory)
    cache,                \* cache key -> the file <key>.json, or NoFile
    now,                  \* the clock (datetime.now())
    last,                 \* the last cache call: its arguments, its result and
                          \* what the directory held when it was made
    saved,                \* per key, the last completed save_analysis since the
                          \* last clear_cache: [response, at], or NoSave
    \* api/routes/analysis.py and the analysis services
    analysis_storage,     \* analysis id -> the stored AnalysisResponse
    tasks,                \* analysis id -> the background task: its arguments,
                          \* the await it is suspended at and its locals
    repo_cache,           \* the cache directory of RepositoryAnalysisService
    \* OptimizedChunker.prepare_code_for_analysis
    processed_files,      \* the argument: the uploaded files, in upload order
    code_content,         \* the returned dict, NoCodeContent until it returns
    opc,                  \* "start", "cobol" (inside CobolChunker) or "done"
    \* EnhancedAnalysisService._group_similar_chunks
    grouping              \* the call: the number of chunks, similarity_matrix,
                          \* whether the vectorizer raises, and the groups returned

chunkVars ==
    <<file, cpc, i, current_chunk_lines, current_tokens, chunk_number,
      current_section, chunks, strategy>>

cacheVars == <<cache, now, last, saved>>

pipeVars == <<analysis_storage, tasks, repo_cache>>

optVars == <<processed_files, code_content, opc>>

vars == <<chunkVars, cacheVars, pipeVars, optVars, grouping>>

(***************************************************************************)
(* AnalysisCache.  Strings are sequences of symbols, so that the hash      *)
(* input f"{content}_{name}_{language}" is a concatenation.                *)
(***************************************************************************)
NoFile == [exists |-> FALSE]
NoSave == [exists |-> FALSE]
None   == "None"

Contents   == {<<"a">>, <<"a", "_", "b">>}
Names      == {<<"c">>, <<"b", "_", "c">>}
Languages  == {<<"COBOL">>}
Strategies == {"single_chunk", "cobol_structured"}
\* model responses: free text, and text that is a JSON document
Responses  == {"prose", "{json}"}
IsJson(response) == response = "{json}"

\* the file_info dictionaries of the callers: the key fields and one more
FileInfos == [name : Names, language : Languages, strategy : Strategies]

\* the (content, file_info) pairs the cache is called with
CacheInputs ==
    {x \in [content : Contents, file_info : FileInfos] :
        ~(x.content = <<"a", "_", "b">> /\ x.file_info.name = <<"b", "_", "c">>)}

\* hashlib.sha256(...).hexdigest(): collision-free, one digest per input
Sha256(str) == str

\* a key that also depends on the strategy field
_generate_cache_key_WithStrategy(content, file_info) ==
    Sha256(content \o <<"_">> \o file_info.name \o <<"_">> \o file_info.language
           \o <<"_", file_info.strategy>>)

_generate_cache_key(content, file_info) ==
    Sha256(content \o <<"_">> \o file_info.name \o <<"_">> \o file_info.language)

\* str(n) for a small positive n
Digit(n) == <<"1", "2", "3", "4", "5", "6", "7", "8", "9">>[n]

\* chunk['content'] of chunk k of a file: the banner (file name, chunk number,
\* section) and the chunk's lines, all determined by the file and k
ChunkContent(content, k) == content \o <<"#", Digit(k)>>

\* file_info of _analyze_cobol_chunk
ChunkFileInfo(k, n) ==
    [ name         |-> <<"chunk", "_", Digit(k)>>,
      language     |-> <<"COBOL">>,
      strategy     |-> "cobol_structured",
      chunk_num    |-> k,
      total_chunks |-> n ]

ChunkInputs ==
    {[content |-> ChunkContent(c, k), file_info |-> ChunkFileInfo(k, n)] :
        c \in Contents, k \in 1..MaxChunks, n \in 1..MaxChunks}

Keys ==
    {_generate_cache_key(x.content, x.file_info) : x \in CacheInputs \cup ChunkInputs}

\* an entry of exactly the TTL's age still counts as valid
_is_cache_valid_Inclusive(c, t, k) ==
    /\ c[k] # NoFile
    /\ t - c[k].mtime <= CacheDuration

\* the file exists and its modification time is less than cache_duration ago
_is_cache_valid(c, t, k) ==
    /\ c[k] # NoFile
    /\ t - c[k].mtime < CacheDuration

Expired(c, t) == {k \in Keys : c[k] # NoFile /\ ~_is_cache_valid(c, t, k)}
Entries(c)    == {k \in Keys : c[k] # NoFile}

\* get_cached_analysis: what it returns, and the directory it leaves (a
\* valid file that cannot be decoded raises inside the try: None is
\* returned and the file stays)
GetResult(c, t, content, file_info) ==
    LET k == _generate_cache_key(content, file_info)
    IN  IF _is_cache_valid(c, t, k) /\ ~c[k].corrupt
        THEN c[k].analysis_response
        ELSE None

CacheAfterGet(c, t, content, file_info) ==
    LET k == _generate_cache_key(content, file_info)
    IN  IF _is_cache_valid(c, t, k) THEN c
        ELSE IF c[k] # NoFile THEN [c EXCEPT ![k] = NoFile]
        ELSE c

\* the except branch of get_cached_analysis, were it to re-raise
CacheReadError_Reraised(e) == [raised |-> TRUE, value |-> e]

\* the except branch of get_cached_analysis: exception e is logged and None
\* is returned
CacheReadError(e) == [raised |-> FALSE, value |-> None]

\* the except branch of save_analysis: exception e is logged and the method
\* returns
CacheWriteError(e) == [raised |-> FALSE, value |-> None]

\* the directory after a save_analysis that raised inside its try: at open()
\* nothing is written; inside json.dump the file is left cut short
CacheAfterFailedSave(c, t, content, file_info, at) ==
    IF at = "open" THEN c
    ELSE [c EXCEPT ![_generate_cache_key(content, file_info)] =
            [ exists            |-> TRUE,
              mtime             |-> t,
              corrupt           |-> TRUE,
              file_info         |-> file_info,
              content_hash      |-> Sha256(content),
              analysis_response |-> None ]]

\* a save onto a file that is being read or written loses the file
CacheAfterSave_Torn(c, t, content, file_info, analysis_response) ==
    IF c[_generate_cache_key(content, file_info)] # NoFile
    THEN [c EXCEPT ![_generate_cache_key(content, file_info)] = NoFile]
    ELSE [c EXCEPT ![_generate_cache_key(content, file_info)] =
            [ exists            |-> TRUE,
              mtime             |-> t,
              corrupt           |-> FALSE,
              file_info         |-> file_info,
              content_hash      |-> Sha256(content),
              analysis_response |-> analysis_response ]]

\* a save that keeps the file that is already there
CacheAfterSave_KeepExisting(c, t, content, file_info, analysis_response) ==
    IF c[_generate_cache_key(content, file_info)] # NoFile THEN c
    ELSE [c EXCEPT ![_generate_cache_key(content, file_info)] =
            [ exists            |-> TRUE,
              mtime             |-> t,
              corrupt           |-> FALSE,
              file_info         |-> file_info,
              content_hash      |-> Sha256(content),
              analysis_response |-> analysis_response ]]

\* save_analysis: the file is (over)written
CacheAfterSave(c, t, content, file_info, analysis_response) ==
    [c EXCEPT ![_generate_cache_key(content, file_info)] =
        [ exists            |-> TRUE,
          mtime             |-> t,
          corrupt           |-> FALSE,
          file_info         |-> file_info,
          content_hash      |-> Sha256(content),
          analysis_response |-> analysis_response ]]

\* a cleanup that removes every file
CacheAfterCleanup_All(c, t) == [k \in Keys |-> NoFile]

\* cleanup_expired_cache: every file that is not valid is removed
CacheAfterCleanup(c, t) ==
    [k \in Keys |-> IF k \in Expired(c, t) THEN NoFile ELSE c[k]]

\* what a call saw before it acted: the directory, and the file of its key
Before(k) ==
    [ existed  |-> cache[k] # NoFile,
      age      |-> IF cache[k] # NoFile THEN now - cache[k].mtime ELSE 0,
      response |-> IF cache[k] # NoFile THEN cache[k].analysis_response ELSE None,
      entries  |-> Entries(cache),
      expired  |-> Expired(cache, now) ]

Whole ==
    [ existed |-> FALSE, age |-> 0, response |-> None,
      entries |-> Entries(cache), expired |-> Expired(cache, now) ]

NoKey == <<>>
NoInfo == [name |-> <<>>, language |-> <<>>, strategy |-> "none"]
NoCall ==
    [ op |-> "none", key |-> NoKey, content |-> <<>>, file_info |-> NoInfo,
      result |-> None, removed |-> 0,
      before |-> [ existed |-> FALSE, age |-> 0, response |-> None,
                   entries |-> {}, expired |-> {} ] ]

(***************************************************************************)
(* Analysis requests: the stored responses and the background tasks.       *)
(***************************************************************************)
Reqs == 1..NumRequests

\* completed_at: Optional[datetime] = None
NoTime == -1

\* repo_info.name
RepoName == <<"c">>

\* the contents of the files of a repository upload: those of the cache
\* calls and one more of the length of the first
RepositoryContents == Contents \cup {<<"b">>}

\* What a request's uploaded files come to: the endpoint it was posted to,
\* the language with the most lines, the language of the first file, the
\* number of files, the number of chunks the chunker cuts them into (0: the
\* input is within max_tokens) and the content.  A request of one file has
\* one language; the repository endpoint does not chunk and reads no
\* language.
RequestInputs ==
    {x \in [ endpoint         : {"architectural", "repository"},
             primary_language : {"cobol", "python"},
             first_language   : {"cobol", "python"},
             total_files      : {1, 2},
             total_chunks     : 0..MaxChunks,
             content          : RepositoryContents ] :
        /\ x.total_files = 1 => x.first_language = x.primary_language
        /\ x.endpoint = "architectural" => x.content \in Contents
        /\ x.endpoint = "repository" =>
              /\ x.primary_language = "python"
              /\ x.first_language = "python"
              /\ x.total_chunks = 0}

\* architectural_analysis: Optional[ArchitecturalAnalysis] = None
NoResult == [exists |-> FALSE]

NoInput ==
    [ endpoint |-> "none", primary_language |-> "none", first_language |-> "none",
      total_files |-> 0, total_chunks |-> 0, content |-> <<>> ]

NoAnalysis ==
    [ stored                 |-> FALSE,
      status                 |-> "none",
      architectural_analysis |-> NoResult,
      repository_analysis    |-> NoResult,
      created_at             |-> NoTime,
      completed_at           |-> NoTime,
      error_message          |-> None ]

\* the outcome of an awaited call to the language model
Raises == "raises"
Outcomes == Responses \cup {Raises}

\* a task: pc is the await it is suspended at; outcome is, per chunk or chunk
\* group, "none", "running", "ok" (analysed by a call), "hit" (taken from the
\* cache) or "raised"; synthesis records the synthesis or merge call and the
\* analyses it was given; missed, wrote and wrote_at record the task's
\* last cache miss and cache write; summary is the analysis summary given
\* to _quick_synthesis: per entry its "Group n" label and the group whose
\* call returned the analysis; looked is, per chunk (0: the content of a
\* single_chunk request), the result of the cache lookup made for it, "none",
\* "miss" or "hit", and called the chunks an external analysis call was
\* issued for; io_errors names the cache calls of the
\* task that met an I/O error; raised_at is where the exception that ended
\* the analysis came from
NoTask ==
    [ pc        |-> "none",
      input     |-> NoInput,
      k         |-> 0,
      outcome   |-> [j \in 1..MaxChunks |-> "none"],
      synthesis |-> [ran |-> FALSE, on |-> {}],
      summary   |-> <<>>,
      looked    |-> [j \in 0..MaxChunks |-> "none"],
      called    |-> {},
      result    |-> NoResult,
      missed    |-> FALSE,
      wrote     |-> None,
      wrote_at  |-> NoTime,
      io_errors |-> {},
      raised_at |-> "none" ]

\* RepositoryAnalysisService: the cached content is a summary of the files
\* (names and lengths)
_create_repo_summary(content) == <<"f", ":", Digit(Len(content))>>

RepoFileInfo(x) ==
    [ name       |-> <<"repo", "_">> \o RepoName,
      language   |-> <<"REPOSITORY">>,
      strategy   |-> "full_repository",
      file_count |-> x.total_files ]

RepoKeys ==
    {_generate_cache_key(_create_repo_summary(x.content), RepoFileInfo(x)) :
        x \in RequestInputs}

PipeIdle ==
    /\ analysis_storage = [r \in Reqs |-> NoAnalysis]
    /\ tasks = [r \in Reqs |-> NoTask]
    /\ repo_cache = [k \in RepoKeys |-> NoFile]

\* no call of OptimizedChunker.prepare_code_for_analysis
NoCodeContent == [strategy |-> "none"]

\* no call of _group_similar_chunks
NoGrouping ==
    [pc |-> "idle", n |-> 0, similarity_matrix |-> <<>>, raises |-> FALSE,
     groups |-> <<>>]

OptIdle ==
    /\ processed_files = <<>>
    /\ code_content = NoCodeContent
    /\ opc = "idle"
    /\ grouping = NoGrouping

InitCacheVars ==
    /\ cache = [k \in Keys |-> NoFile]
    /\ now = 0
    /\ last = NoCall
    /\ saved = [k \in Keys |-> NoSave]

ChunkIdle ==
    /\ file = <<>>
    /\ cpc = "idle"
    /\ i = 1
    /\ current_chunk_lines = <<>>
    /\ current_tokens = 0
    /\ chunk_number = 1
    /\ current_section = 0
    /\ chunks = <<>>
    /\ strategy = "none"

InitCache == InitCacheVars /\ ChunkIdle /\ PipeIdle /\ OptIdle

CacheOnly == UNCHANGED <<chunkVars, pipeVars, optVars, grouping>>

get_cached_analysis(content, file_info) ==
    LET k == _generate_cache_key(content, file_info)
    IN  /\ cache' = CacheAfterGet(cache, now, content, file_info)
        /\ last' = [ op |-> "get", key |-> k, content |-> content,
                     file_info |-> file_info,
                     result |-> GetResult(cache, now, content, file_info),
                     removed |-> 0,
                     before |-> Before(k) ]
        /\ UNCHANGED <<now, saved>>
        /\ CacheOnly

save_analysis(content, file_info, analysis_response) ==
    LET k == _generate_cache_key(content, file_info)
    IN  /\ cache' = CacheAfterSave(cache, now, content, file_info, analysis_response)
        /\ last' = [ op |-> "save", key |-> k, content |-> content,
                     file_info |-> file_info,
                     result |-> analysis_response,
                     removed |-> 0,
                     before |-> Before(k) ]
        /\ saved' = [saved EXCEPT ![k] =
                        [ exists |-> TRUE, response |-> analysis_response, at |-> now,
                          writes |-> IF saved[k].exists THEN 2 ELSE 1 ]]
        /\ UNCHANGED now
        /\ CacheOnly

\* returns removed_count
cleanup_expired_cache ==
    /\ cache' = CacheAfterCleanup(cache, now)
    /\ last' = [ op |-> "cleanup", key |-> NoKey, content |-> <<>>,
                 file_info |-> NoInfo, result |-> None,
                 removed |-> Cardinality(Expired(cache, now)),
                 before |-> Whole ]
    /\ UNCHANGED <<now, saved>>
    /\ CacheOnly

\* returns removed_count
clear_cache ==
    /\ cache' = [k \in Keys |-> NoFile]
    /\ last' = [ op |-> "clear", key |-> NoKey, content |-> <<>>,
                 file_info |-> NoInfo, result |-> None,
                 removed |-> Cardinality(Entries(cache)),
                 before |-> Whole ]
    /\ saved' = [k \in Keys |-> NoSave]
    /\ UNCHANGED now
    /\ CacheOnly

\* the clock may advance during a call: ClockSteps is how far it moves
\* between the pass that collects valid_files and the pass that collects
\* expired_files, each of which reads datetime.now() for every file
ClockSteps == {0, 1}

\* get_cache_stats; elapsed is the time between its two passes
get_cache_stats(elapsed) ==
    /\ now + elapsed <= MaxTime
    /\ LET cache_files   == Entries(cache)
           valid_files   == {k \in cache_files : _is_cache_valid(cache, now, k)}
           expired_files ==
               {k \in cache_files : ~_is_cache_valid(cache, now + elapsed, k)}
       IN  last' = [ op |-> "stats", key |-> NoKey, content |-> <<>>,
                     file_info |-> NoInfo,
                     result |-> [ total_files   |-> Cardinality(cache_files),
                                  valid_files   |-> Cardinality(valid_files),
                                  expired_files |-> Cardinality(expired_files) ],
                     removed |-> 0,
                     before |-> Whole ]
    /\ now' = now + elapsed
    /\ UNCHANGED <<cache, saved>>
    /\ CacheOnly

\* time passes
Tick ==
    /\ now < MaxTime
    /\ now' = now + 1
    /\ UNCHANGED <<cache, last, saved>>
    /\ CacheOnly

NextCache ==
    \/ \E x \in CacheInputs : get_cached_analysis(x.content, x.file_info)
    \/ \E x \in CacheInputs, r \in Responses :
          save_analysis(x.content, x.file_info, r)
    \/ cleanup_expired_cache
    \/ clear_cache
    \/ \E elapsed \in ClockSteps : get_cache_stats(elapsed)
    \/ Tick

SpecCache == InitCache /\ [][NextCache]_vars

(***************************************************************************)
(* CobolChunker                                                            *)
(***************************************************************************)
\* the three loops in the opposite order: paragraphs tried first
BoundaryLevel_ParagraphFirst(l) ==
    IF MatchesParagraph(l) THEN "paragraph"
    ELSE IF MatchesSection(l) THEN "section"
    ELSE IF MatchesDivision(l) THEN "division"
    ELSE "none"

\* the tier recorded for a line by _find_cobol_boundaries: divisions are
\* tried first, sections only if no division matched, paragraphs last
BoundaryLevel(l) ==
    IF MatchesDivision(l) THEN "division"
    ELSE IF MatchesSection(l) THEN "section"
    ELSE IF MatchesParagraph(l) THEN "paragraph"
    ELSE "none"

\* boundaries: position -> level, for the positions that match some pattern
_find_cobol_boundaries(f) ==
    [p \in {q \in DOMAIN f : BoundaryLevel(f[q]) # "none"} |-> BoundaryLevel(f[p])]

\* chunk_lines[-3:] if len(chunk_lines) > 3 else chunk_lines
_get_context_overlap(chunk_lines, level) ==
    IF level \in {"division", "section"}
    THEN IF Len(chunk_lines) > 3 THEN PySliceFrom(chunk_lines, -3) ELSE chunk_lines
    ELSE <<>>

\* the backward search window of _find_safe_split_point
SearchWindow == 50

\* 0-based split index: the last line of the window that matches a paragraph
\* pattern (index 0 is never tried), else 80% of the length
_find_safe_split_point(f, lines) ==
    LET n    == Len(lines)
        cand == {k \in (Max(0, n - SearchWindow) + 1)..(n - 1) :
                    MatchesParagraph(f[lines[k + 1]])}
    IN  IF cand # {} THEN CHOOSE k \in cand : \A m \in cand : m <= k
        ELSE (n * 8) \div 10

\* tokens of the banner line and the blank line after it
BannerTokens == 1

_create_cobol_chunk(f, lines, number, section) ==
    [ lines        |-> lines,
      chunk_number |-> number,
      section      |-> section,
      tokens       |-> BannerTokens + JoinTokens(f, lines) ]

TotalTokens(f) == JoinTokens(f, [k \in 1..Len(f) |-> k])

ChunkOnly == UNCHANGED <<cacheVars, pipeVars, optVars, grouping>>

InitChunk ==
    /\ InitCacheVars
    /\ PipeIdle
    /\ OptIdle
    /\ file \in Files
    /\ cpc = "start"
    /\ i = 1
    /\ current_chunk_lines = <<>>
    /\ current_tokens = 0
    /\ chunk_number = 1
    /\ current_section = 0
    /\ chunks = <<>>
    /\ strategy = "none"

\* chunk_cobol_file, total_tokens <= max_tokens: _create_single_cobol_chunk
SingleCobolChunk ==
    /\ cpc = "start"
    /\ TotalTokens(file) <= MaxTokens
    /\ strategy' = "single_chunk"
    /\ cpc' = "done"
    /\ UNCHANGED <<file, i, current_chunk_lines, current_tokens, chunk_number,
                   current_section, chunks>>
    /\ ChunkOnly

\* chunk_cobol_file, large file: enter _chunk_by_cobol_structure
StartStructured ==
    /\ cpc = "start"
    /\ TotalTokens(file) > MaxTokens
    /\ cpc' = "loop"
    /\ UNCHANGED <<file, i, current_chunk_lines, current_tokens, chunk_number,
                   current_section, chunks, strategy>>
    /\ ChunkOnly

AtBoundary == i \in DOMAIN _find_cobol_boundaries(file)

\* the section label after the boundary check of line i
SectionAt == IF AtBoundary THEN i ELSE current_section

\* the condition of the boundary split at line i
GoodBoundary ==
    /\ AtBoundary
    /\ 10 * current_tokens > 7 * MaxTokens
    /\ current_chunk_lines # <<>>
    /\ _find_cobol_boundaries(file)[i] \in {"division", "section"}

\* one iteration: boundary split, then continue
BoundarySplit ==
    /\ cpc = "loop" /\ i <= Len(file)
    /\ GoodBoundary
    /\ current_section' = SectionAt
    /\ chunks' = Append(chunks,
          _create_cobol_chunk(file, current_chunk_lines, chunk_number, SectionAt))
    /\ chunk_number' = chunk_number + 1
    /\ current_chunk_lines' =
          _get_context_overlap(current_chunk_lines, _find_cobol_boundaries(file)[i]) \o <<i>>
    /\ current_tokens' = JoinTokens(file, current_chunk_lines')
    /\ i' = i + 1
    /\ UNCHANGED <<file, cpc, strategy>>
    /\ ChunkOnly

\* the accumulation and its running total after line i is appended
Appended == Append(current_chunk_lines, i)
AppendedTokens == current_tokens + LineTokens(file[i])

\* one iteration: the line is appended and the chunk is still small
AppendLine ==
    /\ cpc = "loop" /\ i <= Len(file)
    /\ ~GoodBoundary
    /\ ~(10 * AppendedTokens > 9 * MaxTokens)
    /\ current_section' = SectionAt
    /\ current_chunk_lines' = Appended
    /\ current_tokens' = AppendedTokens
    /\ i' = i + 1
    /\ UNCHANGED <<file, cpc, chunk_number, chunks, strategy>>
    /\ ChunkOnly

\* one iteration: the line is appended, the chunk is too large and is split
EmergencySplit ==
    /\ cpc = "loop" /\ i <= Len(file)
    /\ ~GoodBoundary
    /\ 10 * AppendedTokens > 9 * MaxTokens
    /\ LET split_point == _find_safe_split_point(file, Appended)
       IN  /\ split_point > 0
           /\ chunks' = Append(chunks,
                 _create_cobol_chunk(file, PyPrefix(Appended, split_point),
                                     chunk_number, SectionAt))
           /\ current_chunk_lines' = PySliceFrom(Appended, split_point - 5)
    /\ chunk_number' = chunk_number + 1
    /\ current_tokens' = JoinTokens(file, current_chunk_lines')
    /\ current_section' = SectionAt
    /\ i' = i + 1
    /\ UNCHANGED <<file, cpc, strategy>>
    /\ ChunkOnly

\* one iteration: the chunk is too large but the split point is 0
EmergencyNoSplit ==
    /\ cpc = "loop" /\ i <= Len(file)
    /\ ~GoodBoundary
    /\ 10 * AppendedTokens > 9 * MaxTokens
    /\ _find_safe_split_point(file, Appended) = 0
    /\ current_section' = SectionAt
    /\ current_chunk_lines' = Appended
    /\ current_tokens' = AppendedTokens
    /\ i' = i + 1
    /\ UNCHANGED <<file, cpc, chunk_number, chunks, strategy>>
    /\ ChunkOnly

\* after the loop: the final chunk, and chunk_cobol_file returns
FinalChunk ==
    /\ cpc = "loop" /\ i > Len(file)
    /\ chunks' = IF current_chunk_lines # <<>>
                 THEN Append(chunks,
                        _create_cobol_chunk(file, current_chunk_lines, chunk_number,
                                            current_section))
                 ELSE chunks
    /\ strategy' = "cobol_structured"
    /\ cpc' = "done"
    /\ UNCHANGED <<file, i, current_chunk_lines, current_tokens, chunk_number,
                   current_section>>
    /\ ChunkOnly

NextChunk ==
    \/ SingleCobolChunk
    \/ StartStructured
    \/ BoundarySplit
    \/ AppendLine
    \/ EmergencySplit
    \/ EmergencyNoSplit
    \/ FinalChunk

SpecChunk == InitChunk /\ [][NextChunk]_vars

(***************************************************************************)
(* OptimizedChunker.  A file is known to the chunker by the keywords its   *)
(* name and its directory contain (file['path'] is the directory followed  *)
(* by the name), by its language and by its lines.                         *)
(***************************************************************************)
\* most files of one upload
MaxFiles == 3
\* longest COBOL file of an upload, in lines
MaxListedLines == 3

\* self.importance_weights, in the order of the dict
importance_weights ==
    << <<"main", 100>>, <<"index", 90>>, <<"app", 85>>, <<"server", 80>>,
       <<"config", 70>>, <<"settings", 65>>, <<"package", 60>>,
       <<"model", 75>>, <<"controller", 75>>, <<"service", 75>>,
       <<"component", 70>>, <<"util", 50>>, <<"helper", 50>>,
       <<"test", 30>>, <<"spec", 30>>, <<"readme", 20>> >>

\* self.language_priorities.get(language, 30)
language_priorities(language) ==
    CASE language = "cobol"      -> 100
      [] language = "python"     -> 90
      [] language \in {"javascript", "typescript"} -> 85
      [] language = "java"       -> 80
      [] language \in {"cpp", "c"} -> 75
      [] language = "go"         -> 70
      [] language \in {"json", "yaml"} -> 40
      [] language = "xml"        -> 35
      [] language = "txt"        -> 20
      [] OTHER                   -> 30

\* the weight of the first keyword of the dict found in the name
RECURSIVE NameWeight(_, _)
NameWeight(file_name, weights) ==
    IF weights = <<>> THEN 0
    ELSE IF Head(weights)[1] \in file_name THEN Head(weights)[2]
    ELSE NameWeight(file_name, Tail(weights))

\* _calculate_file_importance, times 50 (the score adds lines / 50, a float)
_calculate_file_importance(f) ==
    50 * (NameWeight(f.name, importance_weights) + language_priorities(f.language))
    + Min(Len(f.content), 50 * 30)

\* lines of the files that are not COBOL: a definition ("def f():") or not
GenericLineSet == [cls : {"def", "plain"}, tok : {1, 3}]

\* a one-line file, a file of half the budget, and a file over the budget
\* with two logical boundaries
GenericContents ==
    { << [cls |-> "plain", tok |-> 1] >>,
      << [cls |-> "plain", tok |-> 3] >>,
      << [cls |-> "def", tok |-> 1], [cls |-> "plain", tok |-> 3],
         [cls |-> "def", tok |-> 1] >> }

\* main.py, config_test.py, README.md and a name with no keyword; at the
\* top, under models/ or under tests/
GenericFiles ==
    {f \in [ name     : {{}, {"main"}, {"config", "test"}, {"readme"}},
             dir      : {{}, {"model"}, {"test"}},
             language : {"python", "markdown"},
             content  : GenericContents ] :
        f.language = "markdown" <=> "readme" \in f.name}

CobolFiles ==
    [ name     : {{}},
      dir      : {{}},
      language : {"cobol"},
      content  : {f \in Files : Len(f) <= MaxListedLines} ]

\* the uploads: files that are not COBOL, or a COBOL file followed by at
\* most one other file
Uploads ==
    UNION {[1..n -> GenericFiles] : n \in 1..MaxFiles}
    \cup {<<c>> : c \in CobolFiles}
    \cup {<<c, g>> : c \in CobolFiles, g \in GenericFiles}

\* len(self.encoding.encode(file['content']))
ContentTokens(f) == JoinTokens(f.content, [k \in 1..Len(f.content) |-> k])

\* the "\n\n--- path ---\n" that _estimate_total_tokens puts before a file
SeparatorTokens == 1

\* _estimate_total_tokens
_estimate_total_tokens(files) ==
    SumSeq([k \in 1..Len(files) |-> SeparatorTokens + ContentTokens(files[k])])

\* sorted(..., key=self._calculate_file_importance) without reverse=True
RECURSIVE InsertByImportance_Ascending(_, _, _)
InsertByImportance_Ascending(files, x, s) ==
    IF s = <<>> THEN <<x>>
    ELSE IF _calculate_file_importance(files[Head(s)])
              <= _calculate_file_importance(files[x])
         THEN <<Head(s)>> \o InsertByImportance_Ascending(files, x, Tail(s))
         ELSE <<x>> \o s

\* a descending sort that is not stable: a file goes before the files of
\* equal importance met before it
RECURSIVE InsertByImportance_Unstable(_, _, _)
InsertByImportance_Unstable(files, x, s) ==
    IF s = <<>> THEN <<x>>
    ELSE IF _calculate_file_importance(files[Head(s)])
              > _calculate_file_importance(files[x])
         THEN <<Head(s)>> \o InsertByImportance_Unstable(files, x, Tail(s))
         ELSE <<x>> \o s

\* sorted(idxs, key=self._calculate_file_importance, reverse=True) over the
\* positions idxs of files: the sort is stable, files of equal importance
\* keep their order
RECURSIVE InsertByImportance(_, _, _)
InsertByImportance(files, x, s) ==
    IF s = <<>> THEN <<x>>
    ELSE IF _calculate_file_importance(files[Head(s)])
              >= _calculate_file_importance(files[x])
         THEN <<Head(s)>> \o InsertByImportance(files, x, Tail(s))
         ELSE <<x>> \o s

RECURSIVE SortedByImportance(_, _)
SortedByImportance(files, idxs) ==
    IF idxs = <<>> THEN <<>>
    ELSE InsertByImportance(files, idxs[Len(idxs)],
             SortedByImportance(files, SubSeq(idxs, 1, Len(idxs) - 1)))

\* _create_single_chunk: 'files' lists the positions of the files in the
\* order they are written to 'content'
_create_single_chunk(files) ==
    [ strategy |-> "single_chunk",
      files    |-> SortedByImportance(files, [k \in 1..Len(files) |-> k]),
      chunks   |-> <<>> ]

\* the if/elif chain of _group_files_by_type
Category(f) ==
    LET file_name == f.name
        file_path == f.dir \cup f.name
    IN  IF file_name \cap {"main", "index", "app", "server"} # {}
          THEN "core"
        ELSE IF file_path \cap {"model", "service", "controller", "business", "logic"} # {}
          THEN "business_logic"
        ELSE IF file_name \cap {"config", "settings", "package", ".env"} # {}
          THEN "configuration"
        ELSE IF file_path \cap {"test", "spec", "__test__"} # {}
          THEN "tests"
        ELSE IF file_name \cap {"readme", "doc", "guide"} # {}
          THEN "documentation"
        ELSE "utilities"

\* the keys of the dict groups, in insertion order
GroupNames ==
    <<"core", "business_logic", "configuration", "utilities", "tests",
      "documentation">>

\* the positions, from k on, of the files the chain puts in group g
RECURSIVE CategoryIdx(_, _, _)
CategoryIdx(files, k, g) ==
    IF k > Len(files) THEN <<>>
    ELSE (IF Category(files[k]) = g THEN <<k>> ELSE <<>>)
         \o CategoryIdx(files, k + 1, g)

\* _group_files_by_type: per group, the positions of its files
_group_files_by_type(files) ==
    [g \in Range(GroupNames) |->
        SortedByImportance(files, CategoryIdx(files, 1, g))]

\* _find_logical_boundaries (python patterns, also the default)
_find_logical_boundaries(lines) == {k \in 1..Len(lines) : lines[k].cls = "def"}

\* chunk_size of _simple_split_large_file (2000 lines), scaled down
SimpleChunkSize == 2

\* a split that returns from inside its loop
_simple_split_large_file_FirstOnly(lines) ==
    << [k \in 1..Min(SimpleChunkSize, Len(lines)) |-> k] >>

\* _simple_split_large_file: the parts, each the positions of its lines
_simple_split_large_file(lines) ==
    [p \in 1..((Len(lines) + SimpleChunkSize - 1) \div SimpleChunkSize) |->
        [k \in 1..Min(SimpleChunkSize, Len(lines) - (p - 1) * SimpleChunkSize) |->
            (p - 1) * SimpleChunkSize + k]]

LinesTokens(lines, idxs) == SumSeq([k \in 1..Len(idxs) |-> LineTokens(lines[idxs[k]])])

\* the for loop of _handle_large_file, before line k
RECURSIVE LargeFileLoop(_, _, _, _)
LargeFileLoop(lines, k, parts, current_lines) ==
    IF k > Len(lines)
    THEN IF current_lines # <<>> THEN Append(parts, current_lines) ELSE parts
    ELSE IF /\ k \in _find_logical_boundaries(lines)
            /\ 2 * LinesTokens(lines, current_lines) > MaxTokens
            /\ current_lines # <<>>
         THEN LargeFileLoop(lines, k + 1, Append(parts, current_lines), <<k>>)
         ELSE LargeFileLoop(lines, k + 1, parts, Append(current_lines, k))

\* _handle_large_file: the parts, each the positions of its lines
_handle_large_file(lines) ==
    IF Cardinality(_find_logical_boundaries(lines)) < 2
    THEN _simple_split_large_file(lines)
    ELSE LargeFileLoop(lines, 1, <<>>, <<>>)

\* a chunk of a smart_chunk result: its group, and per file written to it
\* the position of the file and the positions of the lines written
WholeFile(files, x) == [file |-> x, lines |-> [k \in 1..Len(files[x].content) |-> k]]

\* _create_group_chunk and _create_sub_chunk
GroupChunk(files, idxs, group) ==
    [group |-> group, files |-> [k \in 1..Len(idxs) |-> WholeFile(files, idxs[k])]]

LargeFileChunks(files, x, group) ==
    LET parts == _handle_large_file(files[x].content)
    IN  [p \in 1..Len(parts) |->
            [group |-> group, files |-> << [file |-> x, lines |-> parts[p]] >>]]

\* the for loop of _split_group_intelligently, before the file idxs[k]
RECURSIVE SplitGroupLoop(_, _, _, _, _, _)
SplitGroupLoop(files, idxs, k, group, chunks_, current_chunk_files) ==
    LET Saved == IF current_chunk_files # <<>>
                 THEN Append(chunks_, GroupChunk(files, current_chunk_files, group))
                 ELSE chunks_
        TokensOf(xs) == SumSeq([n \in 1..Len(xs) |-> ContentTokens(files[xs[n]])])
    IN  IF k > Len(idxs) THEN Saved
        ELSE LET file_tokens == ContentTokens(files[idxs[k]])
             IN  IF 10 * file_tokens > 7 * MaxTokens
                 THEN SplitGroupLoop(files, idxs, k + 1, group,
                          Saved \o LargeFileChunks(files, idxs[k], group), <<>>)
                 ELSE IF 10 * (TokensOf(current_chunk_files) + file_tokens) > 8 * MaxTokens
                 THEN SplitGroupLoop(files, idxs, k + 1, group, Saved, <<idxs[k]>>)
                 ELSE SplitGroupLoop(files, idxs, k + 1, group, chunks_,
                          Append(current_chunk_files, idxs[k]))

_split_group_intelligently(files, idxs, group) ==
    SplitGroupLoop(files, idxs, 1, group, <<>>, <<>>)

\* the for loop of _create_smart_chunks, before the group GroupNames[g]
RECURSIVE SmartChunksLoop(_, _)
SmartChunksLoop(files, g) ==
    IF g > Len(GroupNames) THEN <<>>
    ELSE LET group == GroupNames[g]
             idxs == _group_files_by_type(files)[group]
             group_tokens == SumSeq([n \in 1..Len(idxs) |-> ContentTokens(files[idxs[n]])])
         IN  (IF idxs = <<>> THEN <<>>
              ELSE IF 10 * group_tokens <= 8 * MaxTokens
                   THEN << GroupChunk(files, idxs, group) >>
                   ELSE _split_group_intelligently(files, idxs, group))
             \o SmartChunksLoop(files, g + 1)

_create_smart_chunks(files) ==
    [ strategy |-> "smart_chunk",
      files    |-> <<>>,
      chunks   |-> SmartChunksLoop(files, 1) ]

IsCobolUpload(files) == files # <<>> /\ files[1].language = "cobol"

OptOnly == UNCHANGED <<chunkVars, cacheVars, pipeVars, grouping>>

InitOptimized ==
    /\ InitCacheVars
    /\ PipeIdle
    /\ ChunkIdle
    /\ processed_files \in Uploads
    /\ code_content = NoCodeContent
    /\ opc = "start"
    /\ grouping = NoGrouping

\* prepare_code_for_analysis, first file in COBOL: hand its content to
\* CobolChunker.chunk_cobol_file
PrepareCobol ==
    /\ opc = "start"
    /\ IsCobolUpload(processed_files)
    /\ opc' = "cobol"
    /\ file' = processed_files[1].content
    /\ cpc' = "start"
    /\ UNCHANGED <<i, current_chunk_lines, current_tokens, chunk_number,
                   current_section, chunks, strategy, processed_files,
                   code_content, cacheVars, pipeVars, grouping>>

\* chunk_cobol_file returns: its dict is the result
CobolReturns ==
    /\ opc = "cobol"
    /\ cpc = "done"
    /\ opc' = "done"
    /\ code_content' = [strategy |-> strategy, files |-> <<>>, chunks |-> chunks]
    /\ UNCHANGED processed_files
    /\ OptOnly

\* prepare_code_for_analysis, any other upload
PrepareGeneric ==
    /\ opc = "start"
    /\ ~IsCobolUpload(processed_files)
    /\ opc' = "done"
    /\ code_content' =
          IF _estimate_total_tokens(processed_files) <= MaxTokens
          THEN _create_single_chunk(processed_files)
          ELSE _create_smart_chunks(processed_files)
    /\ UNCHANGED processed_files
    /\ OptOnly

NextOptimized ==
    \/ PrepareCobol
    \/ NextChunk
    \/ CobolReturns
    \/ PrepareGeneric

SpecOptimized == InitOptimized /\ [][NextOptimized]_vars

(***************************************************************************)
(* One large file split by a generic chunker: OptimizedChunker.            *)
(* _handle_large_file and CodeChunker._chunk_large_file, each with its     *)
(* fallback.  The file is in file, the method in strategy and the parts    *)
(* returned, each the positions of its lines, in chunks.                   *)
(***************************************************************************)
\* the lines current_chunk_lines[-5:] carried into the next part, scaled down
OverlapLines == 2
\* chunk_size (1000 lines) and overlap (50 lines) of _chunk_by_lines, scaled
LinesChunkSize == 3
LinesOverlap == 1

GenericLargeFiles == UNION {[1..n -> GenericLineSet] : n \in 1..MaxLines}

\* f"\n\n--- File: {file['path']} ({file['language']}) ---\n"
FileHeaderTokens == 1

\* range(0, n, step), 1-based
RECURSIVE PyRange(_, _, _)
PyRange(start, n, step) ==
    IF start > n THEN <<>> ELSE <<start>> \o PyRange(start + step, n, step)

\* CodeChunker._chunk_by_lines
_chunk_by_lines(lines) ==
    LET starts == PyRange(1, Len(lines), LinesChunkSize - LinesOverlap)
    IN  [p \in 1..Len(starts) |->
            [k \in 1..Min(LinesChunkSize, Len(lines) - starts[p] + 1) |->
                starts[p] + k - 1]]

\* the for loop of CodeChunker._chunk_large_file, before line k
RECURSIVE ChunkLargeFileLoop(_, _, _, _, _)
ChunkLargeFileLoop(lines, k, parts, lines_, tokens_) ==
    IF k > Len(lines)
    THEN IF lines_ # <<>> THEN Append(parts, lines_) ELSE parts
    ELSE IF /\ k \in _find_logical_boundaries(lines)
            /\ 10 * tokens_ > 7 * (MaxTokens \div 2)
            /\ lines_ # <<>>
         THEN LET overlap_lines == IF Len(lines_) > OverlapLines
                                   THEN PySliceFrom(lines_, 0 - OverlapLines)
                                   ELSE lines_
                  restart == Append(overlap_lines, k)
              IN  ChunkLargeFileLoop(lines, k + 1, Append(parts, lines_),
                                     restart, JoinTokens(lines, restart))
         ELSE ChunkLargeFileLoop(lines, k + 1, parts, Append(lines_, k),
                                 tokens_ + LineTokens(lines[k]))

\* CodeChunker._chunk_large_file
_chunk_large_file(lines) ==
    IF _find_logical_boundaries(lines) = {}
    THEN _chunk_by_lines(lines)
    ELSE ChunkLargeFileLoop(lines, 1, <<>>, <<>>, 0)

WholeTokens(lines) == JoinTokens(lines, [k \in 1..Len(lines) |-> k])

InitLargeFile ==
    /\ InitCacheVars
    /\ PipeIdle
    /\ OptIdle
    /\ file \in GenericLargeFiles
    /\ cpc = "start"
    /\ i = 1
    /\ current_chunk_lines = <<>>
    /\ current_tokens = 0
    /\ chunk_number = 1
    /\ current_section = 0
    /\ chunks = <<>>
    /\ strategy = "none"

\* OptimizedChunker._split_group_intelligently meets a file over 70% of the
\* budget
HandleLargeFile ==
    /\ cpc = "start"
    /\ 10 * WholeTokens(file) > 7 * MaxTokens
    /\ chunks' = _handle_large_file(file)
    /\ strategy' = "_handle_large_file"
    /\ cpc' = "done"
    /\ UNCHANGED <<file, i, current_chunk_lines, current_tokens, chunk_number,
                   current_section>>
    /\ ChunkOnly

\* CodeChunker._create_chunked_content meets a file over 80% of the budget
ChunkLargeFile ==
    /\ cpc = "start"
    /\ 10 * (FileHeaderTokens + WholeTokens(file)) > 8 * MaxTokens
    /\ chunks' = _chunk_large_file(file)
    /\ strategy' = "_chunk_large_file"
    /\ cpc' = "done"
    /\ UNCHANGED <<file, i, current_chunk_lines, current_tokens, chunk_number,
                   current_section>>
    /\ ChunkOnly

NextLargeFile == HandleLargeFile \/ ChunkLargeFile

SpecLargeFile == InitLargeFile /\ [][NextLargeFile]_vars

(***************************************************************************)
(* The analysis pipeline.  The background tasks run on the one event loop  *)
(* of the process: from one await to the next a task runs alone, so an     *)
(* action is the code between two awaits.                                  *)
(***************************************************************************)
PipeOnly == UNCHANGED <<chunkVars, now, last, saved, optVars, grouping>>

\* _parse_cobol_response and _parse_architectural_response: the JSON document
\* of the response if there is one, else fields cut from the text; no
\* exception leaves them
_parse_cobol_response(response) ==
    [exists |-> TRUE, overview |-> response, structured |-> IsJson(response)]

_parse_architectural_response(response) ==
    [exists |-> TRUE, overview |-> response, structured |-> IsJson(response)]

\* json.dumps and json.loads
json_dumps(value) == <<"json", value>>
json_loads(text) == text[2]

\* OptimizedChunker.prepare_code_for_analysis: the 'strategy' of code_content
prepare_code_for_analysis(x) ==
    IF x.first_language = "cobol"
    THEN IF x.total_chunks = 0 THEN "single_chunk" ELSE "cobol_structured"
    ELSE IF x.total_chunks = 0 THEN "single_chunk" ELSE "smart_chunk"

\* code_content has a 'content' key under the single_chunk strategy only
HasContent(x) == prepare_code_for_analysis(x) = "single_chunk"

\* the method analyze_architecture_fast hands the request to (its own
\* in-memory cache belongs to a service object made for this task alone and
\* is empty)
analyze_architecture_fast(x) ==
    IF x.primary_language = "cobol"
    THEN IF prepare_code_for_analysis(x) = "cobol_structured"
         THEN "_analyze_cobol_chunks"
         ELSE "_analyze_single_cobol_file"
    ELSE IF x.total_files = 1 THEN "_analyze_single_file"
    ELSE IF prepare_code_for_analysis(x) = "single_chunk"
         THEN "_analyze_single_chunk_fast"
         ELSE "_analyze_multi_chunk_parallel"

\* cosine similarities are kept in tenths: 0.2, 0.3 and 0.4
SimilarityLevels == {2, 3, 4}

\* the threshold 0.3, in tenths
SimilarityThreshold == 3

\* the pairs i < j of chunks: the entries of similarity_matrix that are read
ChunkPairs(n) == {p \in (1..n) \X (1..n) : p[1] < p[2]}

\* similarity_matrix[i][j] >= 0.3
Similar_Inclusive(similarity_matrix, a, b) ==
    similarity_matrix[<<a, b>>] >= SimilarityThreshold

\* similarity_matrix[i][j] > 0.3
Similar(similarity_matrix, a, b) ==
    similarity_matrix[<<a, b>>] > SimilarityThreshold

\* the inner loop for j in range(i+1, len(chunks)), before chunk b
RECURSIVE AbsorbLoop(_, _, _, _, _, _)
AbsorbLoop(n, similarity_matrix, a, b, group, used_indices) ==
    IF b > n THEN [group |-> group, used_indices |-> used_indices]
    ELSE IF b \notin used_indices /\ Similar(similarity_matrix, a, b)
         THEN AbsorbLoop(n, similarity_matrix, a, b + 1, Append(group, b),
                         used_indices \cup {b})
         ELSE AbsorbLoop(n, similarity_matrix, a, b + 1, group, used_indices)

\* the outer loop for i in range(len(chunks)), before chunk a
RECURSIVE GroupLoop(_, _, _, _, _)
GroupLoop(n, similarity_matrix, a, groups, used_indices) ==
    IF a > n THEN groups
    ELSE IF a \in used_indices
         THEN GroupLoop(n, similarity_matrix, a + 1, groups, used_indices)
         ELSE LET absorbed == AbsorbLoop(n, similarity_matrix, a, a + 1, <<a>>,
                                         used_indices \cup {a})
              IN  GroupLoop(n, similarity_matrix, a + 1,
                            Append(groups, absorbed.group), absorbed.used_indices)

\* _group_similar_chunks for n chunks: the groups in order, each the
\* positions of its chunks in order; raises says that the vectorizer raises
_group_similar_chunks(n, similarity_matrix, raises) ==
    IF n <= 3 THEN [g \in 1..n |-> <<g>>]
    ELSE IF raises THEN [g \in 1..n |-> <<g>>]
    ELSE GroupLoop(n, similarity_matrix, 1, <<>>, {})

\* file_info of _analyze_single_cobol_file
SingleCobolFileInfo ==
    [name |-> RepoName, language |-> <<"COBOL">>, strategy |-> "single_chunk"]

\* an except branch that only logs
MarkFailed_LogOnly(a, e, t) == a

\* the except branch of the background tasks
MarkFailed(a, e, t) ==
    [a EXCEPT !.status = "failed", !.error_message = e, !.completed_at = t]

MarkCompleted(a, result, t) ==
    [a EXCEPT !.status = "completed", !.architectural_analysis = result,
              !.completed_at = t]

MarkRepositoryCompleted(a, result, t) ==
    [a EXCEPT !.status = "completed", !.repository_analysis = result,
              !.completed_at = t]

\* the task of r ends with exception e, raised at `where'; tk is the task
\* as the exception leaves it
Fail(r, tk, e, where) ==
    /\ analysis_storage' = [analysis_storage EXCEPT ![r] = MarkFailed(@, e, now)]
    /\ tasks' = [tasks EXCEPT ![r] = [tk EXCEPT !.pc = "done", !.raised_at = where]]

Processing(r) == [analysis_storage EXCEPT ![r].status = "processing"]

Queued(r, endpoint) ==
    /\ tasks[r].pc = "queued"
    /\ tasks[r].input.endpoint = endpoint

Route(r) == analyze_architecture_fast(tasks[r].input)

\* the chunk groups of the request of r
Groups(r) == DOMAIN _group_similar_chunks(tasks[r].input.total_chunks, <<>>, FALSE)

WithOutcome(r, o) == {j \in 1..tasks[r].input.total_chunks : tasks[r].outcome[j] = o}

\* POST /analyze/architectural: the response is stored as PROCESSING and the
\* task is queued (analysis ids are fresh; they are taken in order)
analyze_architectural(r, x) ==
    /\ ~analysis_storage[r].stored
    /\ IF r > 1 THEN analysis_storage[r - 1].stored ELSE TRUE
    /\ x.endpoint = "architectural"
    /\ analysis_storage' = [analysis_storage EXCEPT ![r] =
          [NoAnalysis EXCEPT !.stored = TRUE, !.status = "processing",
                             !.created_at = now]]
    /\ tasks' = [tasks EXCEPT ![r] = [NoTask EXCEPT !.pc = "queued", !.input = x]]
    /\ UNCHANGED <<cache, repo_cache>>
    /\ PipeOnly

\* POST /repository-analysis: the response is stored as PENDING
analyze_repository_structure(r, x) ==
    /\ ~analysis_storage[r].stored
    /\ IF r > 1 THEN analysis_storage[r - 1].stored ELSE TRUE
    /\ x.endpoint = "repository"
    /\ analysis_storage' = [analysis_storage EXCEPT ![r] =
          [NoAnalysis EXCEPT !.stored = TRUE, !.status = "pending",
                             !.created_at = now]]
    /\ tasks' = [tasks EXCEPT ![r] = [NoTask EXCEPT !.pc = "queued", !.input = x]]
    /\ UNCHANGED <<cache, repo_cache>>
    /\ PipeOnly

\* perform_architectural_analysis, a method that reads code_content['content']
\* of a code_content that has no such key
StartWithoutContent(r) ==
    /\ Queued(r, "architectural")
    /\ Route(r) \in {"_analyze_single_cobol_file", "_analyze_single_file"}
    /\ ~HasContent(tasks[r].input)
    /\ Fail(r, tasks[r], "KeyError", "dispatch")
    /\ UNCHANGED <<cache, repo_cache>>
    /\ PipeOnly

\* perform_architectural_analysis up to the call of _analyze_single_cobol_file
\* (or, on a cache hit, up to the diagram and recommendation calls)
StartSingleCobolFile(r) ==
    /\ Queued(r, "architectural")
    /\ Route(r) = "_analyze_single_cobol_file"
    /\ HasContent(tasks[r].input)
    /\ LET content == tasks[r].input.content
           cached_response == GetResult(cache, now, content, SingleCobolFileInfo)
       IN  /\ cache' = CacheAfterGet(cache, now, content, SingleCobolFileInfo)
           /\ tasks' = IF cached_response # None
                       THEN [tasks EXCEPT ![r].pc = "extras",
                               ![r].result = _parse_cobol_response(cached_response),
                               ![r].looked[0] = "hit"]
                       ELSE [tasks EXCEPT ![r].pc = "single_cobol_call",
                               ![r].missed = TRUE,
                               ![r].looked[0] = "miss",
                               ![r].called = @ \cup {0}]
    /\ analysis_storage' = Processing(r)
    /\ UNCHANGED repo_cache
    /\ PipeOnly

\* a directory that is written whether the call returned or raised
CacheAfterCall_SaveAlways(c, t, content, file_info, out) ==
    CacheAfterSave(c, t, content, file_info, IF out = Raises THEN "prose" ELSE out)

\* the directory after the awaited call: save_analysis is the statement
\* after the await, which an exception of the call skips
CacheAfterCall(c, t, content, file_info, out) ==
    IF out = Raises THEN c ELSE CacheAfterSave(c, t, content, file_info, out)

\* the call of _analyze_single_cobol_file returns or raises
SingleCobolFileReturns(r, out) ==
    /\ tasks[r].pc = "single_cobol_call"
    /\ cache' = CacheAfterCall(cache, now, tasks[r].input.content,
                               SingleCobolFileInfo, out)
    /\ IF out = Raises
       THEN Fail(r, tasks[r], "APIError", "call")
       ELSE /\ tasks' = [tasks EXCEPT ![r].pc = "extras",
                            ![r].result = _parse_cobol_response(out),
                            ![r].wrote = out,
                            ![r].wrote_at = now]
            /\ UNCHANGED analysis_storage
    /\ UNCHANGED repo_cache
    /\ PipeOnly

\* StartSingleCobolFile when the lookup meets an I/O error (stat, open, read
\* or unlink fails), whatever the directory holds
StartSingleCobolFileReadError(r) ==
    /\ Queued(r, "architectural")
    /\ Route(r) = "_analyze_single_cobol_file"
    /\ HasContent(tasks[r].input)
    /\ LET got == CacheReadError("OSError")
       IN  IF got.raised
           THEN Fail(r, [tasks[r] EXCEPT !.io_errors = @ \cup {"get"}],
                     got.value, "cache")
           ELSE /\ tasks' = [tasks EXCEPT ![r].pc = "single_cobol_call",
                                ![r].missed = TRUE,
                                ![r].looked[0] = "miss",
                                ![r].called = @ \cup {0},
                                ![r].io_errors = @ \cup {"get"}]
                /\ analysis_storage' = Processing(r)
    /\ UNCHANGED <<cache, repo_cache>>
    /\ PipeOnly

\* SingleCobolFileReturns when the call returns and the save meets an I/O
\* error, at open() or inside json.dump
SingleCobolFileReturnsWriteError(r, out, at) ==
    /\ tasks[r].pc = "single_cobol_call"
    /\ out # Raises
    /\ cache' = CacheAfterFailedSave(cache, now, tasks[r].input.content,
                                     SingleCobolFileInfo, at)
    /\ LET put == CacheWriteError("OSError")
       IN  IF put.raised
           THEN Fail(r, [tasks[r] EXCEPT !.io_errors = @ \cup {"save"}],
                     put.value, "cache")
           ELSE /\ tasks' = [tasks EXCEPT ![r].pc = "extras",
                                ![r].result = _parse_cobol_response(out),
                                ![r].io_errors = @ \cup {"save"}]
                /\ UNCHANGED analysis_storage
    /\ UNCHANGED repo_cache
    /\ PipeOnly

\* the for loop of _analyze_cobol_chunks from chunk k, as far as it runs
\* without an await: cache hits are decoded and collected, until a chunk
\* misses (stop "call"), a cached response is not JSON, or the loop ends
RECURSIVE RunChunks(_, _, _, _)
RunChunks(c, t, x, k) ==
    IF k > x.total_chunks
    THEN [cache |-> c, k |-> k, stop |-> "merge", hits |-> {}]
    ELSE LET content == ChunkContent(x.content, k)
             file_info == ChunkFileInfo(k, x.total_chunks)
             cached_response == GetResult(c, t, content, file_info)
             c2 == CacheAfterGet(c, t, content, file_info)
         IN  IF cached_response = None
             THEN [cache |-> c2, k |-> k, stop |-> "call", hits |-> {}]
             ELSE IF ~IsJson(cached_response)
             THEN [cache |-> c2, k |-> k, stop |-> "JSONDecodeError", hits |-> {}]
             ELSE [RunChunks(c2, t, x, k + 1) EXCEPT !.hits = @ \cup {k}]

\* _merge_cobol_analyses raises before its call: a decoded cached analysis
\* has no 'section' key, and the service has no attribute 'client'
MergeError(oc) ==
    IF \E j \in DOMAIN oc : oc[j] = "hit" THEN "KeyError" ELSE "AttributeError"

\* _analyze_cobol_chunks goes on from chunk k with the directory c
ContinueCobolChunks(r, tk, c, k) ==
    LET run == RunChunks(c, now, tk.input, k)
        oc  == [j \in 1..MaxChunks |-> IF j \in run.hits THEN "hit" ELSE tk.outcome[j]]
        lk  == [j \in 0..MaxChunks |-> IF j \in run.hits THEN "hit" ELSE tk.looked[j]]
    IN  /\ cache' = run.cache
        /\ CASE run.stop = "call" ->
                  /\ tasks' = [tasks EXCEPT ![r] =
                        [tk EXCEPT !.pc = "cobol_chunk_call", !.k = run.k,
                                   !.outcome = [oc EXCEPT ![run.k] = "running"],
                                   !.missed = TRUE,
                                   !.looked = [lk EXCEPT ![run.k] = "miss"],
                                   !.called = @ \cup {run.k}]]
                  /\ analysis_storage' = Processing(r)
             [] run.stop = "JSONDecodeError" ->
                  Fail(r, [tk EXCEPT !.k = run.k,
                                     !.outcome = [oc EXCEPT ![run.k] = "raised"],
                                     !.looked = [lk EXCEPT ![run.k] = "hit"]],
                       "JSONDecodeError", "chunk")
             [] run.stop = "merge" ->
                  Fail(r, [tk EXCEPT !.k = run.k, !.outcome = oc, !.looked = lk],
                       MergeError(oc), "merge")

\* perform_architectural_analysis up to the first call of _analyze_cobol_chunk
StartCobolChunks(r) ==
    /\ Queued(r, "architectural")
    /\ Route(r) = "_analyze_cobol_chunks"
    /\ ContinueCobolChunks(r, tasks[r], cache, 1)
    /\ UNCHANGED repo_cache
    /\ PipeOnly

\* the call of _analyze_cobol_chunk returns or raises
CobolChunkReturns(r, out) ==
    /\ tasks[r].pc = "cobol_chunk_call"
    /\ LET tk == tasks[r]
           k  == tasks[r].k
           c  == CacheAfterCall(cache, now, ChunkContent(tk.input.content, k),
                                ChunkFileInfo(k, tk.input.total_chunks), out)
       IN  IF out = Raises
           THEN /\ Fail(r, [tk EXCEPT !.outcome[k] = "raised"], "APIError", "chunk")
                /\ cache' = c
           ELSE ContinueCobolChunks(r,
                   [tk EXCEPT !.outcome[k] = "ok", !.wrote = out, !.wrote_at = now],
                   c, k + 1)
    /\ UNCHANGED repo_cache
    /\ PipeOnly

\* perform_architectural_analysis up to the call of _analyze_single_file or
\* _analyze_single_chunk_fast.  Neither reads the AnalysisCache; the lookup
\* made before them is that of analyze_architecture_fast in the dict of its
\* service object, under a key of the repository's metadata and the first
\* 1000 characters of the content: the object is new, the lookup misses
StartSingleCall(r) ==
    /\ Queued(r, "architectural")
    /\ Route(r) \in {"_analyze_single_file", "_analyze_single_chunk_fast"}
    /\ HasContent(tasks[r].input)
    /\ tasks' = [tasks EXCEPT ![r].pc = "single_call",
                    ![r].looked[0] = "miss",
                    ![r].called = @ \cup {0}]
    /\ analysis_storage' = Processing(r)
    /\ UNCHANGED <<cache, repo_cache>>
    /\ PipeOnly

SingleCallReturns(r, out) ==
    /\ tasks[r].pc = "single_call"
    /\ IF out = Raises
       THEN Fail(r, tasks[r], "APIError", "call")
       ELSE /\ tasks' = [tasks EXCEPT ![r].pc = "extras",
                            ![r].result = _parse_architectural_response(out)]
            /\ UNCHANGED analysis_storage
    /\ UNCHANGED <<cache, repo_cache>>
    /\ PipeOnly

\* perform_architectural_analysis up to asyncio.gather over the chunk
\* groups.  The key of the lookup of analyze_architecture_fast holds the
\* number of chunks and the first 500 characters of the first chunk; no
\* lookup is made for the other chunks, and _analyze_chunk_group makes none
StartMultiChunkParallel(r) ==
    /\ Queued(r, "architectural")
    /\ Route(r) = "_analyze_multi_chunk_parallel"
    /\ tasks' = [tasks EXCEPT ![r].pc = "gather",
                    ![r].outcome = [j \in 1..MaxChunks |->
                        IF j \in Groups(r) THEN "running" ELSE "none"],
                    ![r].looked[1] = "miss",
                    ![r].called = @ \cup Groups(r)]
    /\ analysis_storage' = Processing(r)
    /\ UNCHANGED <<cache, repo_cache>>
    /\ PipeOnly

\* the call of _analyze_chunk_group for group g returns or raises
ChunkGroupReturns(r, g, out) ==
    /\ tasks[r].pc = "gather"
    /\ g \in Groups(r)
    /\ tasks[r].outcome[g] = "running"
    /\ tasks' = [tasks EXCEPT ![r].outcome[g] = IF out = Raises THEN "raised" ELSE "ok"]
    /\ UNCHANGED <<analysis_storage, cache, repo_cache>>
    /\ PipeOnly

\* chunk_analyses of _analyze_multi_chunk_parallel: gather returns the
\* results in the order of the tasks, an exception object for a call that
\* raised; an analysis is known by the group whose call returned it
chunk_analyses(tk) ==
    [g \in 1..tk.input.total_chunks |->
        IF tk.outcome[g] = "ok" THEN [raised |-> FALSE, group |-> g]
        ELSE [raised |-> TRUE, group |-> g]]

\* the filter loop: the exceptions are left out
RECURSIVE valid_analyses(_)
valid_analyses(analyses) ==
    IF analyses = <<>> THEN <<>>
    ELSE (IF Head(analyses).raised THEN <<>> ELSE <<Head(analyses).group>>)
         \o valid_analyses(Tail(analyses))

\* _create_analysis_summary: f"Group {i+1}: " for the i-th analysis of the
\* list it is given (every analysis yields a key point: str.split never
\* returns an empty list)
_create_analysis_summary(analyses) ==
    [k \in 1..Len(analyses) |-> [label |-> k, group |-> analyses[k]]]

\* gather returns: the exceptions are filtered out and _quick_synthesis is
\* called with the analyses that are left
GatherReturns(r) ==
    /\ tasks[r].pc = "gather"
    /\ WithOutcome(r, "running") = {}
    /\ tasks' = [tasks EXCEPT ![r].pc = "synthesis",
                    ![r].synthesis = [ran |-> TRUE, on |-> WithOutcome(r, "ok")],
                    ![r].summary = _create_analysis_summary(
                                       valid_analyses(chunk_analyses(tasks[r])))]
    /\ UNCHANGED <<analysis_storage, cache, repo_cache>>
    /\ PipeOnly

\* the call of _quick_synthesis returns or raises
SynthesisReturns(r, out) ==
    /\ tasks[r].pc = "synthesis"
    /\ IF out = Raises
       THEN Fail(r, tasks[r], "APIError", "synthesis")
       ELSE /\ tasks' = [tasks EXCEPT ![r].pc = "extras",
                            ![r].result = _parse_architectural_response(out)]
            /\ UNCHANGED analysis_storage
    /\ UNCHANGED <<cache, repo_cache>>
    /\ PipeOnly

\* generate_diagrams and generate_recommendations return (they catch their
\* exceptions) and the analysis is stored as COMPLETED
ExtrasReturn(r) ==
    /\ tasks[r].pc = "extras"
    /\ analysis_storage' = [analysis_storage EXCEPT ![r] =
          MarkCompleted(@, tasks[r].result, now)]
    /\ tasks' = [tasks EXCEPT ![r].pc = "done"]
    /\ UNCHANGED <<cache, repo_cache>>
    /\ PipeOnly

\* what analyze_repository_structure returns after its three calls
RepositoryResult(x) ==
    [ exists             |-> TRUE,
      repository_name    |-> RepoName,
      total_files        |-> x.total_files,
      file_relationships |-> x.content ]

\* perform_repository_analysis up to the first call (or, on a cache hit, to
\* its end)
StartRepository(r) ==
    /\ Queued(r, "repository")
    /\ LET x == tasks[r].input
           repo_content == _create_repo_summary(x.content)
           k == _generate_cache_key(repo_content, RepoFileInfo(x))
       IN  /\ repo_cache' = CacheAfterGet(repo_cache, now, repo_content, RepoFileInfo(x))
           /\ IF _is_cache_valid(repo_cache, now, k)
              THEN /\ analysis_storage' = [analysis_storage EXCEPT ![r] =
                         MarkRepositoryCompleted(@,
                             json_loads(repo_cache[k].analysis_response), now)]
                   /\ tasks' = [tasks EXCEPT ![r].pc = "done"]
              ELSE /\ analysis_storage' = Processing(r)
                   /\ tasks' = [tasks EXCEPT ![r].pc = "relationships",
                                   ![r].missed = TRUE]
    /\ UNCHANGED cache
    /\ PipeOnly

\* one of the three calls of analyze_repository_structure returns or raises;
\* after the last the result is cached and stored as COMPLETED
RepositoryCallReturns(r, out) ==
    /\ tasks[r].pc \in {"relationships", "plantuml", "documentation"}
    /\ LET x == tasks[r].input
       IN  IF out = Raises
           THEN /\ Fail(r, tasks[r], "APIError", "call")
                /\ UNCHANGED repo_cache
           ELSE IF tasks[r].pc # "documentation"
           THEN /\ tasks' = [tasks EXCEPT ![r].pc =
                       IF tasks[r].pc = "relationships" THEN "plantuml"
                       ELSE "documentation"]
                /\ UNCHANGED <<analysis_storage, repo_cache>>
           ELSE /\ repo_cache' = CacheAfterSave(repo_cache, now,
                       _create_repo_summary(x.content), RepoFileInfo(x),
                       json_dumps(RepositoryResult(x)))
                /\ analysis_storage' = [analysis_storage EXCEPT ![r] =
                       MarkRepositoryCompleted(@, RepositoryResult(x), now)]
                /\ tasks' = [tasks EXCEPT ![r].pc = "done"]
    /\ UNCHANGED cache
    /\ PipeOnly

\* the steps of the background task of r
TaskStep(r) ==
    \/ StartWithoutContent(r)
    \/ StartSingleCobolFile(r)
    \/ \E out \in Outcomes : SingleCobolFileReturns(r, out)
    \/ StartCobolChunks(r)
    \/ \E out \in Outcomes : CobolChunkReturns(r, out)
    \/ StartSingleCall(r)
    \/ \E out \in Outcomes : SingleCallReturns(r, out)
    \/ StartMultiChunkParallel(r)
    \/ \E g \in 1..MaxChunks, out \in Outcomes : ChunkGroupReturns(r, g, out)
    \/ GatherReturns(r)
    \/ \E out \in Outcomes : SynthesisReturns(r, out)
    \/ ExtrasReturn(r)
    \/ StartRepository(r)
    \/ \E out \in Outcomes : RepositoryCallReturns(r, out)

InitPipeline == InitCacheVars /\ ChunkIdle /\ PipeIdle /\ OptIdle

\* The requests of one run are made within one tick of the clock: what a
\* task writes to the cache stays valid to the end of the run.

NextPipeline ==
    \/ \E r \in Reqs, x \in RequestInputs : analyze_architectural(r, x)
    \/ \E r \in Reqs, x \in RequestInputs : analyze_repository_structure(r, x)
    \/ \E r \in Reqs : TaskStep(r)

SpecPipeline == InitPipeline /\ [][NextPipeline]_vars

\* every call to the language model returns or raises, and the event loop
\* runs every task that can run
SpecPipelineFair ==
    SpecPipeline /\ \A r \in Reqs : WF_vars(TaskStep(r))
\* the same requests with a cache directory whose reads and writes can fail
NextPipelineIO ==
    \/ NextPipeline
    \/ \E r \in Reqs : StartSingleCobolFileReadError(r)
    \/ \E r \in Reqs, out \in Responses, at \in {"open", "dump"} :
          SingleCobolFileReturnsWriteError(r, out, at)

SpecPipelineIO == InitPipeline /\ [][NextPipelineIO]_vars

(***************************************************************************)
(* _group_similar_chunks called on its own.                                *)
(***************************************************************************)
\* most chunks handed to _group_similar_chunks
MaxGroupChunks == 4

GroupingInputs ==
    UNION {[ pc                : {"start"},
             n                 : {n},
             similarity_matrix : [ChunkPairs(n) -> SimilarityLevels],
             raises            : BOOLEAN,
             groups            : {<<>>} ] : n \in 0..MaxGroupChunks}

InitGrouping ==
    /\ InitCacheVars
    /\ PipeIdle
    /\ ChunkIdle
    /\ processed_files = <<>>
    /\ code_content = NoCodeContent
    /\ opc = "idle"
    /\ grouping \in GroupingInputs

GroupSimilarChunks ==
    /\ grouping.pc = "start"
    /\ grouping' = [grouping EXCEPT
          !.pc = "done",
          !.groups = _group_similar_chunks(grouping.n, grouping.similarity_matrix,
                                           grouping.raises)]
    /\ UNCHANGED <<chunkVars, cacheVars, pipeVars, optVars>>

NextGrouping == GroupSimilarChunks

SpecGrouping == InitGrouping /\ [][NextGrouping]_vars

(***************************************************************************)
(* Claims about the COBOL chunk builder (SpecChunk).                       *)
(***************************************************************************)
Returned == cpc = "done" /\ strategy = "cobol_structured"

\* the chunks' lines in order, each chunk without the lines already taken
\* from the chunks before it (the overlap)
RECURSIVE Reassemble(_, _)
Reassemble(cs, acc) ==
    IF cs = <<>> THEN acc
    ELSE Reassemble(Tail(cs),
            acc \o SelectSeq(Head(cs).lines, LAMBDA p : p \notin Range(acc)))

\* the cost of a chunk's lines alone: no banner, no newlines
LinesCost(c) == SumSeq([k \in 1..Len(c.lines) |-> LineTokens(file[c.lines[k]])])

OverBudget == {k \in DOMAIN chunks : LinesCost(chunks[k]) > MaxTokens}

\* C1: when chunk_cobol_file has split a file, every input line is in at
\* least one emitted chunk and the chunks, overlap removed, give back the
\* input line sequence.
C1_ChunkCoverage ==
    Returned =>
        /\ \A p \in DOMAIN file : \E k \in DOMAIN chunks : p \in Range(chunks[k].lines)
        /\ Reassemble(chunks, <<>>) = [p \in 1..Len(file) |-> p]

\* C2: of the chunks emitted for one file at most one costs more than
\* max_tokens (the cost is taken in the way most favourable to the claim:
\* the tokens of the chunk's lines only).
C2_BudgetRespect == Returned => Cardinality(OverBudget) <= 1

(***************************************************************************)
(* Claims about the cache (SpecCache).                                     *)
(***************************************************************************)
Fresh(k) == saved[k].exists /\ now - saved[k].at < CacheDuration

\* C3: a save leaves exactly one entry for its key, holding the saved
\* response: the directory grows by one file if the key was new and keeps
\* its size if the key was there; and a get within the TTL of the last save
\* of its key returns the response of that save.
C3_IdempotentCaching ==
    /\ last.op = "save" =>
          /\ cache[last.key] # NoFile
          /\ cache[last.key].analysis_response = last.result
          /\ Entries(cache) = last.before.entries \cup {last.key}
    /\ (last.op = "get" /\ Fresh(last.key)) =>
          last.result = saved[last.key].response

\* a get returned the response of the second save of its key
C3_Witness ==
    /\ last.op = "get"
    /\ Fresh(last.key)
    /\ saved[last.key].writes = 2
    /\ last.result = saved[last.key].response

\* C4: a get of an entry whose age is at least the TTL reports a miss and
\* deletes the entry; a get of a younger entry returns its response and
\* keeps it; cleanup removes exactly the entries whose age is at least the
\* TTL and returns their number.
C4_TTLExpiry ==
    /\ (last.op = "get" /\ last.before.existed /\ last.before.age >= CacheDuration) =>
          /\ last.result = None
          /\ cache[last.key] = NoFile
    /\ (last.op = "get" /\ last.before.existed /\ last.before.age < CacheDuration) =>
          /\ last.result = last.before.response
          /\ cache[last.key] # NoFile
    /\ last.op = "cleanup" =>
          /\ Entries(cache) = last.before.entries \ last.before.expired
          /\ last.removed = Cardinality(last.before.expired)

\* a cleanup removed an expired entry and kept a younger one
C4_Witness ==
    /\ last.op = "cleanup"
    /\ last.removed > 0
    /\ Entries(cache) # {}

\* C5: a call whose content, name and language are those of a stored entry
\* resolves to that entry, whatever its other metadata.
C5_FingerprintDeterminism ==
    \A k \in Entries(cache) :
        ( /\ last.op \in {"get", "save"}
          /\ Sha256(last.content) = cache[k].content_hash
          /\ last.file_info.name = cache[k].file_info.name
          /\ last.file_info.language = cache[k].file_info.language )
        => last.key = k

\* a get hit an entry that was saved under another strategy
C5_Witness ==
    /\ last.op = "get"
    /\ last.result # None
    /\ cache[last.key] # NoFile
    /\ cache[last.key].file_info.strategy # last.file_info.strategy

\* C9: whatever the order of the gets, saves and cleanups of the concurrent
\* tasks, an entry stays in the cache, as it was saved, for as long as its
\* age is below the TTL, and a get made in that time returns it.
C9_NoRaceOnKey ==
    /\ \A k \in Keys :
          Fresh(k) =>
             /\ cache[k] # NoFile
             /\ cache[k].analysis_response = saved[k].response
             /\ cache[k].mtime = saved[k].at
    /\ (last.op = "get" /\ Fresh(last.key)) => last.result = saved[last.key].response

\* a get deleted the expired entry of its key while another key's entry,
\* still fresh, stayed
C9_Witness ==
    /\ last.op = "get"
    /\ last.before.existed
    /\ last.result = None
    /\ \E k \in Keys : Fresh(k) /\ cache[k] # NoFile

(***************************************************************************)
(* Claims about the analysis requests (SpecPipeline, SpecPipelineFair).    *)
(***************************************************************************)
MultiChunkRoutes == {"_analyze_cobol_chunks", "_analyze_multi_chunk_parallel"}

\* the chunks or chunk groups of r whose analysis is there
Succeeded(r) == WithOutcome(r, "ok") \cup WithOutcome(r, "hit")

\* the chunk analyses of r are over
ChunksOver(r) == tasks[r].pc \notin {"none", "queued", "gather", "cobol_chunk_call"}

\* C6: in both multi-chunk paths, once the chunk analyses are over with at
\* least one success and at least one failure, the synthesis has been called
\* with exactly the successful analyses and the request has not been ended
\* by the exception of a chunk.
C6_PartialFailureTolerance ==
    \A r \in Reqs :
        ( /\ Route(r) \in MultiChunkRoutes
          /\ ChunksOver(r)
          /\ Succeeded(r) # {}
          /\ WithOutcome(r, "raised") # {} )
        => /\ tasks[r].synthesis = [ran |-> TRUE, on |-> Succeeded(r)]
           /\ tasks[r].raised_at # "chunk"

\* C7: a parallel multi-chunk analysis all of whose chunk-group calls raised
\* ends FAILED, with no analysis result.
C7_TotalFailure ==
    \A r \in Reqs :
        ( /\ Route(r) = "_analyze_multi_chunk_parallel"
          /\ tasks[r].pc = "done"
          /\ WithOutcome(r, "raised") = Groups(r) )
        => /\ analysis_storage[r].status = "failed"
           /\ ~analysis_storage[r].architectural_analysis.exists

Accepted(r) == analysis_storage[r].status \in {"pending", "processing"}
Terminal(r) == analysis_storage[r].status \in {"completed", "failed"}

\* C8: every accepted request eventually is COMPLETED or FAILED, and a
\* request whose analysis raised is FAILED with an error message and a
\* completion time.
C8_EventualTermination ==
    /\ [](\A r \in Reqs :
            tasks[r].raised_at # "none" =>
                /\ analysis_storage[r].status = "failed"
                /\ analysis_storage[r].error_message # None
                /\ analysis_storage[r].completed_at # NoTime)
    /\ \A r \in Reqs : Accepted(r) ~> Terminal(r)

\* one request has failed on a raising call, with its message and time, and
\* another has completed
C8_Witness ==
    \E r1, r2 \in Reqs :
        /\ tasks[r1].raised_at = "call"
        /\ analysis_storage[r1].status = "failed"
        /\ analysis_storage[r1].error_message = "APIError"
        /\ analysis_storage[r1].completed_at # NoTime
        /\ analysis_storage[r2].status = "completed"

\* the single-file COBOL requests that missed, called and wrote key k
Writers(k) ==
    {r \in Reqs :
        /\ Route(r) = "_analyze_single_cobol_file"
        /\ tasks[r].missed
        /\ tasks[r].wrote # None
        /\ _generate_cache_key(tasks[r].input.content, SingleCobolFileInfo) = k}

\* the stored entries that carry the content, name and language of key k's
\* single-file request
EntriesFor(content) ==
    {j \in Entries(cache) :
        /\ cache[j].content_hash = Sha256(content)
        /\ cache[j].file_info.name = SingleCobolFileInfo.name
        /\ cache[j].file_info.language = SingleCobolFileInfo.language}

\* C10: when two (or more) requests of the same fingerprint have all missed,
\* called and written, the cache holds one entry for the fingerprint, its
\* value is the response one of them wrote, and none of them has failed.
C10_ConcurrentSameFingerprint ==
    \A k \in Keys :
        Cardinality(Writers(k)) >= 2 =>
            /\ cache[k] # NoFile
            /\ cache[k].analysis_response \in {tasks[r].wrote : r \in Writers(k)}
            /\ \A r \in Writers(k) :
                  /\ EntriesFor(tasks[r].input.content) = {k}
                  /\ analysis_storage[r].status # "failed"

\* two requests of one fingerprint wrote different responses and both have
\* completed
C10_Witness ==
    \E k \in Keys : \E r1, r2 \in Writers(k) :
        /\ tasks[r1].wrote # tasks[r2].wrote
        /\ cache[k] # NoFile
        /\ analysis_storage[r1].status = "completed"
        /\ analysis_storage[r2].status = "completed"

\* C11: a single-file COBOL analysis whose cache calls met an I/O error is
\* never ended by that error: a failed lookup counts as a miss and the
\* task goes on to the call; the task ends FAILED only if the call itself
\* raised, and otherwise stores as COMPLETED the analysis parsed from the
\* call's response, as it does with an empty cache.
C11_CacheErrorsNonFatal ==
    \A r \in Reqs :
        tasks[r].io_errors # {} =>
            /\ tasks[r].missed
            /\ tasks[r].raised_at \in {"none", "call"}
            /\ tasks[r].pc \in {"single_cobol_call", "extras", "done"}
            /\ tasks[r].pc = "extras" =>
                  \E out \in Responses : tasks[r].result = _parse_cobol_response(out)
            /\ (tasks[r].pc = "done" /\ tasks[r].raised_at = "none") =>
                  /\ analysis_storage[r].status = "completed"
                  /\ \E out \in Responses :
                        analysis_storage[r].architectural_analysis =
                            _parse_cobol_response(out)

\* a request completed although its lookup and its save both failed, and
\* the save left a file cut short
C11_Witness ==
    \E r \in Reqs :
        /\ tasks[r].io_errors = {"get", "save"}
        /\ analysis_storage[r].status = "completed"
        /\ \E k \in Keys : cache[k] # NoFile /\ cache[k].corrupt

(***************************************************************************)
(* Under-budget input.                                                     *)
(***************************************************************************)
NoCobol(files) == \A k \in DOMAIN files : files[k].language # "cobol"

\* FileProcessor.create_repository_info: the language with the most lines,
\* the one met first among equals
LanguageLines(files, language) ==
    SumSeq([k \in 1..Len(files) |->
               IF files[k].language = language THEN Len(files[k].content) ELSE 0])

FirstOf(files, language) ==
    CHOOSE k \in DOMAIN files :
        /\ files[k].language = language
        /\ \A j \in 1..(k - 1) : files[j].language # language

primary_language(files) ==
    CHOOSE l \in {files[k].language : k \in DOMAIN files} :
        \A m \in {files[k].language : k \in DOMAIN files} :
            \/ LanguageLines(files, l) > LanguageLines(files, m)
            \/ /\ LanguageLines(files, l) = LanguageLines(files, m)
               /\ FirstOf(files, l) <= FirstOf(files, m)

\* what the analysis route hands to analyze_architecture_fast
RequestOf(files, result) ==
    [ endpoint         |-> "architectural",
      primary_language |-> primary_language(files),
      first_language   |-> files[1].language,
      total_files      |-> Len(files),
      total_chunks     |-> IF result.strategy = "single_chunk" THEN 0
                           ELSE Len(result.chunks),
      content          |-> <<>> ]

\* the chunks a result holds: the dict itself under single_chunk
NumChunks(result) ==
    IF result.strategy = "single_chunk" THEN 1 ELSE Len(result.chunks)

NonIncreasingImportance(files, idxs) ==
    \A a, b \in DOMAIN idxs :
        a < b => _calculate_file_importance(files[idxs[a]])
                   >= _calculate_file_importance(files[idxs[b]])

EachOnce(n, idxs) ==
    /\ Len(idxs) = n
    /\ \A x \in 1..n : Cardinality({k \in DOMAIN idxs : idxs[k] = x}) = 1

UnderBudgetGeneric ==
    /\ opc = "done"
    /\ NoCobol(processed_files)
    /\ _estimate_total_tokens(processed_files) <= MaxTokens

GenericSingleChunk ==
    UnderBudgetGeneric =>
        /\ code_content.strategy = "single_chunk"
        /\ EachOnce(Len(processed_files), code_content.files)
        /\ NonIncreasingImportance(processed_files, code_content.files)
        /\ analyze_architecture_fast(RequestOf(processed_files, code_content))
              # "_analyze_multi_chunk_parallel"

CobolReturned == opc = "done" /\ IsCobolUpload(processed_files)

SplitDone == cpc = "done" /\ strategy \in {"_handle_large_file", "_chunk_large_file"}

Covered(n, parts) ==
    \A k \in 1..n : \E p \in DOMAIN parts : k \in Range(parts[p])

\* a part is a run of consecutive lines, and neither the first nor the last
\* line of a part comes before that of the part before it
InLineOrder(parts) ==
    /\ \A p \in DOMAIN parts : \A k \in 1..(Len(parts[p]) - 1) :
          parts[p][k + 1] = parts[p][k] + 1
    /\ \A p \in 1..(Len(parts) - 1) :
          /\ parts[p] # <<>> /\ parts[p + 1] # <<>>
          /\ parts[p][1] <= parts[p + 1][1]
          /\ parts[p][Len(parts[p])] <= parts[p + 1][Len(parts[p + 1])]

\* C13: when a generic chunker splits one large file, every line of the
\* file is in at least one part, the parts follow the line order of the
\* file and no part is empty
C13_LargeFileCoverage ==
    SplitDone =>
        /\ Covered(Len(file), chunks)
        /\ InLineOrder(chunks)
        /\ \A p \in DOMAIN chunks : chunks[p] # <<>>

\* a file cut in three parts or more
C13_Witness == SplitDone /\ Len(chunks) >= 3

(***************************************************************************)
(* The emergency split.                                                    *)
(***************************************************************************)
\* C14: each time the emergency split emits a chunk, the accumulation
\* carried into the next iteration has strictly fewer lines than the
\* accumulation had before the split
C14_EmergencyForwardProgress ==
    [][EmergencySplit => Len(current_chunk_lines') < Len(Appended)]_vars

\* C15: no chunk of _chunk_by_cobol_structure is empty: a chunk emitted at
\* a boundary split, at an emergency split or at the end of the input holds
\* at least one line of the input
C15_NoEmptyChunk ==
    strategy # "single_chunk" =>
        \A k \in DOMAIN chunks :
            /\ chunks[k].lines # <<>>
            /\ Range(chunks[k].lines) \subseteq DOMAIN file

\* three chunks or more, one of them of a single line
C15_Witness ==
    /\ Returned
    /\ Len(chunks) >= 3
    /\ \E k \in DOMAIN chunks : Len(chunks[k].lines) = 1

(***************************************************************************)
(* Boundary priority.                                                      *)
(***************************************************************************)
\* the pattern tiers a line matches
TiersMatched(l) ==
    {t \in {"division", "section", "paragraph"} :
        \/ t = "division" /\ MatchesDivision(l)
        \/ t = "section" /\ MatchesSection(l)
        \/ t = "paragraph" /\ MatchesParagraph(l)}

HighestTier(tiers) ==
    IF "division" \in tiers THEN "division"
    ELSE IF "section" \in tiers THEN "section"
    ELSE "paragraph"

InStructuredPath == strategy # "single_chunk" /\ cpc \in {"loop", "done"}

\* C16: _find_cobol_boundaries records for a line at most one boundary, of
\* the highest tier among the tiers the line matches (division over section
\* over paragraph); a line that matches no pattern is not in the map, and a
\* file without a match gives the empty map
C16_BoundaryPriority ==
    InStructuredPath =>
        LET boundaries == _find_cobol_boundaries(file)
        IN  /\ DOMAIN boundaries \subseteq DOMAIN file
            /\ \A p \in DOMAIN file :
                  IF TiersMatched(file[p]) = {}
                  THEN p \notin DOMAIN boundaries
                  ELSE /\ p \in DOMAIN boundaries
                       /\ boundaries[p] = HighestTier(TiersMatched(file[p]))
            /\ (\A p \in DOMAIN file : TiersMatched(file[p]) = {})
                  => DOMAIN boundaries = {}

\* a file with a line of two tiers, a line of one and a line of none
C16_Witness ==
    /\ Returned
    /\ \E p, q, r \in DOMAIN file :
          /\ Cardinality(TiersMatched(file[p])) = 2
          /\ Cardinality(TiersMatched(file[q])) = 1
          /\ TiersMatched(file[r]) = {}

(***************************************************************************)
(* Attribution of the chunk-group analyses.                                *)
(***************************************************************************)
\* C17: in every completion order and for every set of failed groups, each
\* analysis passed to the synthesis is labelled with the index of the group
\* that produced it
C17_GroupAttribution ==
    \A r \in Reqs :
        \A k \in DOMAIN tasks[r].summary :
            tasks[r].summary[k].label = tasks[r].summary[k].group

(***************************************************************************)
(* Similarity grouping.                                                    *)
(***************************************************************************)
Grouped == grouping.pc = "done"

\* the group a chunk is in
GroupOf(groups, c) == CHOOSE g \in DOMAIN groups : c \in Range(groups[g])

\* the reference greedy clustering
GreedyClustering(n, similarity_matrix, groups) ==
    \* a partition: every chunk in exactly one group, once
    /\ \A c \in 1..n :
          Cardinality({<<g, k>> \in (DOMAIN groups) \X (1..n) :
                          k \in DOMAIN groups[g] /\ groups[g][k] = c}) = 1
    /\ \A g \in DOMAIN groups :
          /\ groups[g] # <<>>
          /\ Range(groups[g]) \subseteq 1..n
          \* the members in input order, the first member first
          /\ \A k \in 1..(Len(groups[g]) - 1) : groups[g][k] < groups[g][k + 1]
          \* every other member is similar to the first
          /\ \A k \in 2..Len(groups[g]) :
                similarity_matrix[<<groups[g][1], groups[g][k]>>] > SimilarityThreshold
    \* the groups in the order of their first members
    /\ \A g \in 1..(Len(groups) - 1) : groups[g][1] < groups[g + 1][1]
    \* a first member absorbs every later chunk similar to it that no
    \* earlier group has taken
    /\ \A g \in DOMAIN groups : \A c \in (groups[g][1] + 1)..n :
          (/\ similarity_matrix[<<groups[g][1], c>>] > SimilarityThreshold
           /\ GroupOf(groups, c) >= g)
             => c \in Range(groups[g])

\* C18: for more than 3 chunks and any similarity matrix the groups are the
\* greedy clustering: a partition of the chunks, ordered by first member,
\* every other member later in the input, unassigned when reached and of
\* similarity over 0.3 with the first member; for 3 chunks or fewer, or when
\* the vectorizer raises, every chunk is its own group
C18_GreedyGrouping ==
    Grouped =>
        IF grouping.n <= 3 \/ grouping.raises
        THEN grouping.groups = [g \in 1..grouping.n |-> <<g>>]
        ELSE GreedyClustering(grouping.n, grouping.similarity_matrix, grouping.groups)

\* four chunks in two groups, the second chunk left out of the first group
\* with a similarity of exactly 0.3 and taking the fourth chunk after the
\* first group passed it by
C18_Witness ==
    /\ Grouped
    /\ ~grouping.raises
    /\ grouping.groups = << <<1, 3>>, <<2, 4>> >>
    /\ grouping.similarity_matrix[<<1, 2>>] = SimilarityThreshold

(***************************************************************************)
(* Cache before call.                                                      *)
(***************************************************************************)
\* C19: in every analysis path an external analysis call for a chunk is
\* issued only after a cache lookup for that chunk has missed, and a chunk
\* whose lookup hits causes no external call
C19_CacheBeforeCall ==
    \A r \in Reqs : \A j \in 0..MaxChunks :
        /\ j \in tasks[r].called => tasks[r].looked[j] = "miss"
        /\ tasks[r].looked[j] = "hit" => j \notin tasks[r].called

(***************************************************************************)
(* File bucketing.                                                         *)
(***************************************************************************)
SmartChunked == opc = "done" /\ code_content.strategy = "smart_chunk"

\* none of the five tests of the if/elif chain holds
MatchesNoRule(f) ==
    /\ f.name \cap {"main", "index", "app", "server"} = {}
    /\ (f.dir \cup f.name) \cap {"model", "service", "controller", "business", "logic"} = {}
    /\ f.name \cap {"config", "settings", "package", ".env"} = {}
    /\ (f.dir \cup f.name) \cap {"test", "spec", "__test__"} = {}
    /\ f.name \cap {"readme", "doc", "guide"} = {}

\* a bucket in non-increasing importance, files of equal importance in the
\* order of the input
BucketOrdered(files, idxs) ==
    \A a, b \in DOMAIN idxs :
        a < b =>
            \/ _calculate_file_importance(files[idxs[a]])
                  > _calculate_file_importance(files[idxs[b]])
            \/ /\ _calculate_file_importance(files[idxs[a]])
                     = _calculate_file_importance(files[idxs[b]])
               /\ idxs[a] < idxs[b]

\* C20: _group_files_by_type puts every file in exactly one of the six
\* buckets, a file no rule matches in utilities, and orders each bucket by
\* non-increasing importance, ties in input order
C20_FileBucketing ==
    SmartChunked =>
        LET groups == _group_files_by_type(processed_files)
        IN  /\ DOMAIN groups = {"core", "business_logic", "configuration",
                                "utilities", "tests", "documentation"}
            /\ \A x \in DOMAIN processed_files :
                  Cardinality({<<g, k>> \in (DOMAIN groups) \X (DOMAIN processed_files) :
                                  k \in DOMAIN groups[g] /\ groups[g][k] = x}) = 1
            /\ \A x \in DOMAIN processed_files :
                  MatchesNoRule(processed_files[x]) => x \in Range(groups["utilities"])
            /\ \A g \in DOMAIN groups : BucketOrdered(processed_files, groups[g])

\* a bucket of two files of equal importance and one file that was uploaded
\* before a more important file of its bucket, a file without a rule among
\* the three
C20_Witness ==
    /\ SmartChunked
    /\ Len(processed_files) = MaxFiles
    /\ \E x \in DOMAIN processed_files : MatchesNoRule(processed_files[x])
    /\ LET groups == _group_files_by_type(processed_files)
       IN  \E g \in DOMAIN groups :
              /\ Len(groups[g]) = 3
              /\ groups[g][1] > groups[g][2]
              /\ _calculate_file_importance(processed_files[groups[g][2]])
                    = _calculate_file_importance(processed_files[groups[g][3]])

(***************************************************************************)
(* The COBOL structured analysis.                                          *)
(***************************************************************************)
\* C21: a cobol_structured request all of whose chunk analysis calls
\* returned ends COMPLETED, after exactly one merge call made on all the
\* chunk analyses, with the one result of the merge
C21_CobolStructuredCompletes ==
    \A r \in Reqs :
        ( /\ Route(r) = "_analyze_cobol_chunks"
          /\ tasks[r].pc = "done"
          /\ tasks[r].input.total_chunks > 0
          /\ WithOutcome(r, "ok") = 1..tasks[r].input.total_chunks )
        => /\ analysis_storage[r].status = "completed"
           /\ tasks[r].synthesis = [ran |-> TRUE, on |-> WithOutcome(r, "ok")]
           /\ analysis_storage[r].architectural_analysis.exists

(***************************************************************************)
(* The banner of a COBOL chunk.                                            *)
(***************************************************************************)
\* the last line of the file that a chunk holds
LastLine(c) == c.lines[Len(c.lines)]

\* C22: every chunk of the structured chunker is numbered by its 1-based
\* position in the output and is labelled UNKNOWN (0) or with the name of a
\* boundary line that lies at or before the chunk's last line
C22_BannerAttribution ==
    Returned =>
        \A k \in DOMAIN chunks :
            /\ chunks[k].chunk_number = k
            /\ \/ chunks[k].section = 0
               \/ /\ chunks[k].section \in DOMAIN _find_cobol_boundaries(file)
                  /\ chunks[k].section <= LastLine(chunks[k])

(***************************************************************************)
(* The fingerprint as a function of the triple.                            *)
(***************************************************************************)
\* C23: a lookup that is answered from an entry has the content, the name
\* and the language of the call that stored the entry
C23_FingerprintInjectivity ==
    ( /\ last.op = "get"
      /\ last.result # None
      /\ cache[last.key] # NoFile )
    => /\ cache[last.key].content_hash = Sha256(last.content)
       /\ cache[last.key].file_info.name = last.file_info.name
       /\ cache[last.key].file_info.language = last.file_info.language

(***************************************************************************)
(* Results served from the repository cache.                               *)
(***************************************************************************)
\* the repository request r was answered from the cache, with no analysis
ServedFromRepoCache(r) ==
    /\ tasks[r].input # NoInput
    /\ tasks[r].input.endpoint = "repository"
    /\ tasks[r].pc = "done"
    /\ ~tasks[r].missed
    /\ analysis_storage[r].status = "completed"

\* C24: a repository result that is returned from the cache is the analysis
\* of exactly the file contents of the request that receives it
C24_NoStaleResult ==
    \A r \in Reqs :
        ServedFromRepoCache(r) =>
            analysis_storage[r].repository_analysis.file_relationships
                = tasks[r].input.content

(***************************************************************************)
(* COBOL chunk analyses served from the cache.                             *)
(***************************************************************************)
\* C25: the analysis of a COBOL chunk that is served from the cache does not
\* fail: the entry was stored by an analysis that succeeded, and the hit
\* yields what that analysis yielded
C25_CacheTransparency ==
    \A r \in Reqs : \A j \in 1..MaxChunks :
        ( /\ Route(r) = "_analyze_cobol_chunks"
          /\ tasks[r].looked[j] = "hit" )
        => tasks[r].outcome[j] # "raised"

(***************************************************************************)
(* The dispatch on the chunking result.                                    *)
(***************************************************************************)
\* C26: whatever the chunking strategy, the file count and the primary
\* language of a request, the handler it is routed to finds the fields it
\* reads: no request fails with a KeyError raised by the dispatch
C26_ExhaustiveDispatch ==
    \A r \in Reqs :
        ( /\ tasks[r].input # NoInput
          /\ tasks[r].input.endpoint = "architectural"
          /\ tasks[r].pc = "done" )
        => ~( /\ analysis_storage[r].status = "failed"
              /\ analysis_storage[r].error_message = "KeyError"
              /\ tasks[r].raised_at = "dispatch" )

(***************************************************************************)
(* The files that reach the result of prepare_code_for_analysis.           *)
(***************************************************************************)
\* the files of the upload whose content is in a chunk of the result: of a
\* COBOL upload chunk_cobol_file is handed processed_files[0] alone
ChunkedFiles ==
    IF IsCobolUpload(processed_files) THEN {1}
    ELSE IF code_content.strategy = "single_chunk" THEN Range(code_content.files)
    ELSE UNION {{code_content.chunks[c].files[k].file :
                    k \in DOMAIN code_content.chunks[c].files} :
                c \in DOMAIN code_content.chunks}

\* the part of the claim on uploads whose first file is not in COBOL
GenericFileCoverage ==
    (opc = "done" /\ ~IsCobolUpload(processed_files))
        => ChunkedFiles = DOMAIN processed_files

\* C27: every file of the upload has its content in a chunk of the result
C27_FileCoverage ==
    opc = "done" => ChunkedFiles = DOMAIN processed_files

(***************************************************************************)
(* The results endpoint.                                                   *)
(***************************************************************************)
\* GET /analysis/{analysis_id}/results: the handler has no await and writes
\* nothing, so its answer is a function of the storage it is called on
get_analysis_results(r) ==
    IF ~analysis_storage[r].stored
    THEN [status_code |-> 404, detail |-> "Analysis not found"]
    ELSE IF analysis_storage[r].status = "processing"
    THEN [status_code |-> 202, detail |-> "Analysis still in progress"]
    ELSE [status_code |-> 200, analysis |-> analysis_storage[r]]

\* C28: the results endpoint returns the record of a request exactly when
\* the request is COMPLETED or FAILED, and answers 202 while it is PENDING
\* or PROCESSING
C28_ResultsOnlyWhenTerminal ==
    \A r \in Reqs :
        /\ get_analysis_results(r).status_code = 200 => Terminal(r)
        /\ Accepted(r) => get_analysis_results(r).status_code = 202

(***************************************************************************)
(* The cache statistics.                                                   *)
(***************************************************************************)
\* C29: get_cache_stats reports total_files = valid_files + expired_files
C29_StatsConsistent ==
    last.op = "stats" =>
        last.result.total_files
            = last.result.valid_files + last.result.expired_files

(***************************************************************************)
(* Cache writes and the outcome of the external call.                      *)
(***************************************************************************)
\* the step writes the entry k of the directory c
Written(c, c2, k) == c2[k] # NoFile /\ c2[k] # c[k]

\* the key under which the task of r saves the answer of its pending call
PendingKey(r) ==
    LET x == tasks[r].input
    IN  IF tasks[r].pc = "single_cobol_call"
        THEN _generate_cache_key(x.content, SingleCobolFileInfo)
        ELSE IF tasks[r].pc = "cobol_chunk_call"
        THEN _generate_cache_key(ChunkContent(x.content, tasks[r].k),
                                 ChunkFileInfo(tasks[r].k, x.total_chunks))
        ELSE IF tasks[r].pc \in {"relationships", "plantuml", "documentation"}
        THEN _generate_cache_key(_create_repo_summary(x.content), RepoFileInfo(x))
        ELSE NoKey

\* in this step the call the task of r awaits returns, the last one before
\* its save_analysis
CallReturns(r) ==
    \/ tasks[r].pc = "single_cobol_call" /\ tasks'[r].pc = "extras"
    \/ tasks[r].pc = "cobol_chunk_call" /\ tasks'[r].outcome[tasks[r].k] = "ok"
    \/ tasks[r].pc = "documentation" /\ analysis_storage'[r].status = "completed"

\* in this step the call the task of r awaits raises
CallRaises(r) ==
    \/ tasks[r].pc = "single_cobol_call" /\ tasks'[r].pc = "done"
    \/ tasks[r].pc = "cobol_chunk_call" /\ tasks'[r].outcome[tasks[r].k] = "raised"
    \/ /\ tasks[r].pc \in {"relationships", "plantuml", "documentation"}
       /\ analysis_storage'[r].status = "failed"

WriteOnlyAfterCall ==
    /\ \A k \in Keys :
          Written(cache, cache', k) =>
              \E r \in Reqs : CallReturns(r) /\ PendingKey(r) = k
    /\ \A k \in RepoKeys :
          Written(repo_cache, repo_cache', k) =>
              \E r \in Reqs : CallReturns(r) /\ PendingKey(r) = k
    /\ \A r \in Reqs :
          CallRaises(r) => cache' = cache /\ repo_cache' = repo_cache

\* C30: an entry is written only in the step in which the external call for
\* its key returns, and a step in which a call raises leaves both cache
\* directories as they were
C30_FailedCallNeverCached == [][WriteOnlyAfterCall]_vars

\* a call raised and the key it was made for has no entry
C30_Witness ==
    \E r \in Reqs :
        /\ tasks[r].pc = "done"
        /\ tasks[r].raised_at = "call"
        /\ Route(r) = "_analyze_single_cobol_file"
        /\ tasks[r].input.endpoint = "architectural"
        /\ cache[_generate_cache_key(tasks[r].input.content, SingleCobolFileInfo)]
              = NoFile

====
